---- MODULE Spec2Model ----
(***************************************************************************)
(* Email Productivity Agent: the Model Gateway (backend/llm_client.py),    *)
(* the Processing Pipeline (backend/processors.py) and the Query Router    *)
(* (backend/agent.py).                                                     *)
(*                                                                         *)
(* Text is a sequence of one-character strings, so that strip, split,      *)
(* find, lower and json.loads are computed character by character.  A      *)
(* pictograph of the source ("(warning)", "(e-mail)", ...) is one element. *)
(* Python values are records [t |-> type, v |-> payload].                  *)
(***************************************************************************)
EXTENDS Integers, Sequences, FiniteSets, TLC

\* call: the invocation under way; pc: whether it has returned; ret: what it
\* handed back
VARIABLES call, pc, ret

\* st.session_state of app.py: a record of emails, prompts, processed, drafts,
\* selected_email_id, chat_history, api_key_set and show_draft_form
VARIABLE session_state

\* what the session runs against: the files data/prompts.json and
\* data/mock_inbox.json, the OPENAI_API_KEY of the process, and every request
\* the Gateway was asked to send in the run under way or, between runs, in
\* the last one, in order; bulk: the locals of the bulk pass under way
VARIABLES prompts_json, mock_inbox_json, OPENAI_API_KEY, gateway_log, bulk

world == <<prompts_json, mock_inbox_json, OPENAI_API_KEY, gateway_log, bulk>>

vars == <<call, pc, ret, session_state, world>>

(***************************************************************************)
(* Bounds of the model.                                                    *)
(***************************************************************************)
\* longest sequence of fragments making up a raw model reply
MaxPieces == 3
\* most cue words in one chat query
MaxWords == 3
\* most elements in a generated JSON array
MaxElems == 2
\* most records in the inbox handed to the Query Router
MaxInbox == 7

(***************************************************************************)
(* Python str operations.                                                  *)
(***************************************************************************)
UpperCase == <<"A","B","C","D","E","F","G","H","I","J","K","L","M","N","O","P","Q","R","S","T","U",
               "V","W","X","Y","Z">>

LowerCase == <<"a","b","c","d","e","f","g","h","i","j","k","l","m","n","o","p","q","r","s","t","u",
               "v","w","x","y","z">>

Digits == {"0", "1", "2", "3", "4", "5", "6", "7", "8", "9"}

\* the characters str.strip() removes (of those that occur)
Whitespace == {" ", "\n", "\t", "\r"}

lower_char(c) ==
    IF \E i \in 1..Len(UpperCase) : UpperCase[i] = c
    THEN LowerCase[CHOOSE i \in 1..Len(UpperCase) : UpperCase[i] = c]
    ELSE c

\* str.lower()
lower(s) == [i \in 1..Len(s) |-> lower_char(s[i])]

RECURSIVE lstrip(_)
lstrip(s) == IF s # <<>> /\ Head(s) \in Whitespace THEN lstrip(Tail(s)) ELSE s

RECURSIVE rstrip(_)
rstrip(s) ==
    IF s # <<>> /\ s[Len(s)] \in Whitespace THEN rstrip(SubSeq(s, 1, Len(s) - 1)) ELSE s

\* str.strip()
strip(s) == rstrip(lstrip(s))

\* str.find(c) for a one-character c: 0-based index of the first c, or -1
find(s, c) ==
    IF \E i \in 1..Len(s) : s[i] = c
    THEN (CHOOSE i \in 1..Len(s) : s[i] = c /\ \A j \in 1..(i - 1) : s[j] # c) - 1
    ELSE -1

\* str.rfind(c) for a one-character c: 0-based index of the last c, or -1
rfind(s, c) ==
    IF \E i \in 1..Len(s) : s[i] = c
    THEN (CHOOSE i \in 1..Len(s) : s[i] = c /\ \A j \in (i + 1)..Len(s) : s[j] # c) - 1
    ELSE -1

\* s[a:b] for 0 <= a <= b <= len(s)
slice(s, a, b) == SubSeq(s, a + 1, b)

\* the Python test `sub in s`
contains(s, sub) ==
    \E i \in 0..(Len(s) - Len(sub)) : SubSeq(s, i + 1, i + Len(sub)) = sub

\* s.split("\n")[0]
first_line(s) == IF find(s, "\n") = -1 THEN s ELSE slice(s, 0, find(s, "\n"))

RECURSIVE join(_, _)
\* sep.join(parts)
join(sep, parts) ==
    IF parts = <<>> THEN <<>>
    ELSE IF Len(parts) = 1 THEN parts[1]
    ELSE parts[1] \o sep \o join(sep, Tail(parts))

RECURSIVE str_of_nat(_)
\* str(n) for an int n >= 0
str_of_nat(n) ==
    LET d == <<"0", "1", "2", "3", "4", "5", "6", "7", "8", "9">>[(n % 10) + 1]
    IN  IF n < 10 THEN <<d>> ELSE str_of_nat(n \div 10) \o <<d>>

(***************************************************************************)
(* Python values.                                                          *)
(***************************************************************************)
PyNone == [t |-> "none", v |-> <<>>]

PyStr(s) == [t |-> "str", v |-> s]

\* an int, held as its decimal digits
PyInt(digits) == [t |-> "int", v |-> digits]

\* a float, held as the text it was read from
PyFloat(text) == [t |-> "float", v |-> text]

PyBool(b) == [t |-> "bool", v |-> IF b THEN <<"T">> ELSE <<>>]

PyList(items) == [t |-> "list", v |-> items]

\* a dict: its <<key, value>> pairs in insertion order, keys distinct
PyDict(pairs) == [t |-> "dict", v |-> pairs]

\* bool(x)
truthy(x) ==
    CASE x.t = "none" -> FALSE
      [] x.t = "int" -> x.v # <<"0">>
      [] x.t = "float" -> TRUE
      [] OTHER -> x.v # <<>>

\* d[k] = x
dict_set(pairs, k, x) ==
    IF \E i \in 1..Len(pairs) : pairs[i][1] = k
    THEN [i \in 1..Len(pairs) |-> IF pairs[i][1] = k THEN <<k, x>> ELSE pairs[i]]
    ELSE Append(pairs, <<k, x>>)

\* d.get(k, default) on a dict d
dict_get(d, k, default) ==
    IF \E i \in 1..Len(d.v) : d.v[i][1] = k
    THEN d.v[CHOOSE i \in 1..Len(d.v) : d.v[i][1] = k][2]
    ELSE default

\* format(x) inside an f-string, for None, str, int and bool
format(x) ==
    CASE x.t = "str" -> x.v
      [] x.t = "int" -> x.v
      [] x.t = "none" -> <<"N","o","n","e">>
      [] x.t = "bool" -> IF truthy(x) THEN <<"T","r","u","e">> ELSE <<"F","a","l","s","e">>

(***************************************************************************)
(* json.loads, on text without backslashes.                                *)
(***************************************************************************)
JsonWhitespace == {" ", "\t", "\n", "\r"}

ParseFail == [ok |-> FALSE, val |-> PyNone, pos |-> 0]

Parsed(x, p) == [ok |-> TRUE, val |-> x, pos |-> p]

RECURSIVE skip_ws(_, _)
skip_ws(s, i) == IF i <= Len(s) /\ s[i] \in JsonWhitespace THEN skip_ws(s, i + 1) ELSE i

RECURSIVE skip_digits(_, _)
skip_digits(s, i) == IF i <= Len(s) /\ s[i] \in Digits THEN skip_digits(s, i + 1) ELSE i

starts_at(s, i, lit) == i + Len(lit) - 1 <= Len(s) /\ SubSeq(s, i, i + Len(lit) - 1) = lit

\* the character a backslash escape stands for (py_scanstring's BACKSLASH
\* table; \b, \f and \uXXXX occur in no text of this model and are left out)
unescaped(e) ==
    CASE e = "n" -> "\n"
      [] e = "t" -> "\t"
      [] e = "r" -> "\r"
      [] OTHER -> e

\* STRINGCHUNK: the first quote, backslash or control character from j on, or
\* Len(s) + 1
terminator(s, j) ==
    IF \E k \in j..Len(s) : s[k] \in {"\"", "\\", "\n", "\t", "\r"}
    THEN CHOOSE k \in j..Len(s) :
             /\ s[k] \in {"\"", "\\", "\n", "\t", "\r"}
             /\ \A m \in j..(k - 1) : s[m] \notin {"\"", "\\", "\n", "\t", "\r"}
    ELSE Len(s) + 1

RECURSIVE string_chunk(_, _, _, _)
\* py_scanstring, strict: the chunk s[j..k-1] ends at the terminator k, acc
\* being what is decoded so far; a control character or a bad escape fails
string_chunk(s, j, k, acc) ==
    IF k > Len(s) \/ s[k] \in {"\n", "\t", "\r"} THEN ParseFail
    ELSE IF s[k] = "\"" THEN Parsed(PyStr(acc \o SubSeq(s, j, k - 1)), k + 1)
    ELSE IF k + 1 > Len(s) \/ s[k + 1] \notin {"\"", "\\", "/", "n", "t", "r"} THEN ParseFail
    ELSE string_chunk(s, k + 2, terminator(s, k + 2),
                      acc \o SubSeq(s, j, k - 1) \o <<unescaped(s[k + 1])>>)

\* a string: from the quote at i to the closing quote
parse_string(s, i) == string_chunk(s, i + 1, terminator(s, i + 1), <<>>)

\* NUMBER_RE: (-?(?:0|[1-9]\d*))(\.\d+)?([eE][-+]?\d+)?
\* the integer part is s[i..b-1], and has a digit if has_int
number_at(s, i, has_int, b, end) ==
    IF ~has_int THEN ParseFail
    ELSE IF end > b THEN Parsed(PyFloat(SubSeq(s, i, end - 1)), end)
    ELSE Parsed(PyInt(IF SubSeq(s, i, b - 1) = <<"-", "0">> THEN <<"0">>
                      ELSE SubSeq(s, i, b - 1)), b)

\* the end of the exponent whose digits would start at d, or c if it has none
exponent_end(s, c, d) ==
    IF d > c /\ d <= Len(s) /\ s[d] \in Digits THEN skip_digits(s, d) ELSE c

\* from c, the end of the fraction: the end of the exponent behind it
after_fraction(s, c) ==
    exponent_end(s, c,
                 IF c <= Len(s) /\ s[c] \in {"e", "E"}
                 THEN IF c + 1 <= Len(s) /\ s[c + 1] \in {"+", "-"} THEN c + 2 ELSE c + 1
                 ELSE c)

\* from b, the end of the integer part: the end of the fraction and exponent
after_int(s, b) ==
    after_fraction(s, IF b + 1 <= Len(s) /\ s[b] = "." /\ s[b + 1] \in Digits
                      THEN skip_digits(s, b + 1) ELSE b)

\* the end of the integer part whose digits start at a
int_end(s, a) == IF a <= Len(s) /\ s[a] = "0" THEN a + 1 ELSE skip_digits(s, a)

number_from(s, i, a) ==
    number_at(s, i, int_end(s, a) > a, int_end(s, a), after_int(s, int_end(s, a)))

parse_number(s, i) == number_from(s, i, IF i <= Len(s) /\ s[i] = "-" THEN i + 1 ELSE i)

RECURSIVE parse_value(_, _)
RECURSIVE parse_array_items(_, _, _)
RECURSIVE parse_object_items(_, _, _)

\* JSONArray, behind a value and the white space after it
array_next(s, j, acc) ==
    IF j > Len(s) THEN ParseFail
    ELSE IF s[j] = "]" THEN Parsed(PyList(acc), j + 1)
    ELSE IF s[j] = "," THEN parse_array_items(s, skip_ws(s, j + 1), acc)
    ELSE ParseFail

\* JSONArray, behind the value r
array_value(s, r, acc) ==
    IF ~r.ok THEN ParseFail ELSE array_next(s, skip_ws(s, r.pos), Append(acc, r.val))

\* JSONArray, where a value must start
parse_array_items(s, i, acc) == array_value(s, parse_value(s, i), acc)

\* JSONObject, behind a value and the white space after it
object_next(s, j, acc) ==
    IF j > Len(s) THEN ParseFail
    ELSE IF s[j] = "}" THEN Parsed(PyDict(acc), j + 1)
    ELSE IF s[j] = "," THEN parse_object_items(s, skip_ws(s, j + 1), acc)
    ELSE ParseFail

\* JSONObject, behind the value r of key
object_value(s, key, r, acc) ==
    IF ~r.ok THEN ParseFail ELSE object_next(s, skip_ws(s, r.pos), dict_set(acc, key, r.val))

\* JSONObject, behind a key and the white space after it: the colon
object_colon(s, key, c, acc) ==
    IF c > Len(s) THEN ParseFail
    ELSE IF s[c] # ":" THEN ParseFail
    ELSE object_value(s, key, parse_value(s, skip_ws(s, c + 1)), acc)

\* JSONObject, behind the key k
object_key(s, k, acc) ==
    IF ~k.ok THEN ParseFail ELSE object_colon(s, k.val.v, skip_ws(s, k.pos), acc)

\* JSONObject, where the quote of a key must stand
parse_object_items(s, i, acc) ==
    object_key(s, IF i <= Len(s) /\ s[i] = "\"" THEN parse_string(s, i) ELSE ParseFail, acc)

\* behind the brace: the empty object, or its items
object_from(s, j) ==
    IF j <= Len(s) /\ s[j] = "}" THEN Parsed(PyDict(<<>>), j + 1)
    ELSE parse_object_items(s, j, <<>>)

\* behind the bracket: the empty array, or its items
array_from(s, j) ==
    IF j <= Len(s) /\ s[j] = "]" THEN Parsed(PyList(<<>>), j + 1)
    ELSE parse_array_items(s, j, <<>>)

\* a number, or else one of the literals that look like none
number_or(s, i, number) ==
    IF number.ok THEN number
    ELSE IF starts_at(s, i, <<"N","a","N">>) THEN Parsed(PyFloat(<<"N","a","N">>), i + 3)
    ELSE IF starts_at(s, i, <<"I","n","f","i","n","i","t","y">>) THEN Parsed(PyFloat(<<"I","n","f","i","n","i","t","y">>), i + 8)
    ELSE IF starts_at(s, i, <<"-","I","n","f","i","n","i","t","y">>) THEN Parsed(PyFloat(<<"-","I","n","f","i","n","i","t","y">>), i + 9)
    ELSE ParseFail

\* scan_once: one JSON value starting at i
parse_value(s, i) ==
    IF i > Len(s) THEN ParseFail
    ELSE IF s[i] = "\"" THEN parse_string(s, i)
    ELSE IF s[i] = "{" THEN object_from(s, skip_ws(s, i + 1))
    ELSE IF s[i] = "[" THEN array_from(s, skip_ws(s, i + 1))
    ELSE IF starts_at(s, i, <<"n","u","l","l">>) THEN Parsed(PyNone, i + 4)
    ELSE IF starts_at(s, i, <<"t","r","u","e">>) THEN Parsed(PyBool(TRUE), i + 4)
    ELSE IF starts_at(s, i, <<"f","a","l","s","e">>) THEN Parsed(PyBool(FALSE), i + 5)
    ELSE number_or(s, i, parse_number(s, i))

\* the value r read, nothing but white space may follow
whole_text(s, r) == IF r.ok /\ skip_ws(s, r.pos) = Len(s) + 1 THEN r ELSE ParseFail

\* json.loads(s): ok = FALSE stands for the JSONDecodeError
json_loads(s) == whole_text(s, parse_value(s, skip_ws(s, 1)))

(***************************************************************************)
(* What an operation hands back: a value, or the exception it raises, and  *)
(* the Gateway calls it made on the way.                                   *)
(***************************************************************************)
Returned(value, calls) == [raised |-> FALSE, value |-> value, calls |-> calls]

Raised(exception, calls) == [raised |-> TRUE, value |-> exception, calls |-> calls]

(***************************************************************************)
(* Model Gateway (backend/llm_client.py).                                  *)
(*                                                                         *)
(* env is the world outside one call: env.api_key is what                  *)
(* os.getenv("OPENAI_API_KEY") gives, env.outcome is what the external     *)
(* service does with the request: it answers with a message whose content *)
(* is outcome.content (a str or None), or the client raises an exception   *)
(* of some class whose str() is outcome.text.                              *)
(***************************************************************************)
NoKeyMessage ==
    <<"(warning)"," ","E","r","r","o","r",":"," ","O","P","E","N","A","I","_","A","P","I","_","K",
      "E","Y"," ","n","o","t"," ","f","o","u","n","d"," ","i","n"," ","e","n","v","i","r","o","n",
      "m","e","n","t"," ","v","a","r","i","a","b","l","e","s","."," ","P","l","e","a","s","e"," ",
      "s","e","t"," ","i","t"," ","i","n"," ","y","o","u","r"," ",".","e","n","v"," ","f","i","l",
      "e"," ","o","r"," ","S","t","r","e","a","m","l","i","t"," ","s","e","c","r","e","t","s",".">>

AuthMessage == <<"(warning)"," ","A","u","t","h","e","n","t","i","c","a","t","i","o","n"," ","E",
                 "r","r","o","r",":"," ","I","n","v","a","l","i","d"," ","A","P","I"," ","k","e",
                 "y","."," ","P","l","e","a","s","e"," ","c","h","e","c","k"," ","y","o","u","r",
                 " ","O","P","E","N","A","I","_","A","P","I","_","K","E","Y",".">>

RateLimitMessage == <<"(warning)"," ","R","a","t","e"," ","L","i","m","i","t"," ","E","r","r","o",
                      "r",":"," ","T","o","o"," ","m","a","n","y"," ","r","e","q","u","e","s","t",
                      "s","."," ","P","l","e","a","s","e"," ","w","a","i","t"," ","a"," ","m","o",
                      "m","e","n","t"," ","a","n","d"," ","t","r","y"," ","a","g","a","i","n",".">>

ModelMessage(error_msg) ==
    <<"(warning)"," ","M","o","d","e","l"," ","E","r","r","o","r",":"," ","T","h","e"," ","s","p",
      "e","c","i","f","i","e","d"," ","m","o","d","e","l"," ","m","a","y"," ","n","o","t"," ","b",
      "e"," ","a","v","a","i","l","a","b","l","e","."," ","E","r","r","o","r",":"," ">> \o error_msg

LlmErrorMessage(error_msg) == <<"(warning)"," ","L","L","M"," ","E","r","r","o","r",":"," ">> \o error_msg

\* str(e) of the AttributeError raised by None.strip()
NoneStripText == <<"'","N","o","n","e","T","y","p","e","'"," ","o","b","j","e","c","t"," ","h","a",
                   "s"," ","n","o"," ","a","t","t","r","i","b","u","t","e"," ","'","s","t","r","i",
                   "p","'">>

\* the checks of the except branch of call_llm, on error_msg.lower()
error_message(error_msg, error_lower) ==
    IF contains(error_lower, <<"a","u","t","h","e","n","t","i","c","a","t","i","o","n">>) \/ contains(error_lower, <<"a","p","i","_","k","e","y">>)
    THEN AuthMessage
    ELSE IF contains(error_lower, <<"r","a","t","e","_","l","i","m","i","t">>) THEN RateLimitMessage
    ELSE IF contains(error_lower, <<"m","o","d","e","l">>) THEN ModelMessage(error_msg)
    ELSE LlmErrorMessage(error_msg)

\* the except branch of call_llm
friendly_error(error_msg) == error_message(error_msg, lower(error_msg))

\* one Gateway call: the request, whether the external service was called,
\* and the str handed back
GatewayCall(system_prompt, user_content, net, reply) ==
    [system |-> system_prompt, user |-> user_content, net |-> net, reply |-> reply]

\* the credential tested with "is None": an empty credential goes to the service
llm_reply_empty_key(env) ==
    IF env.api_key.t = "none" THEN NoKeyMessage
    ELSE IF env.outcome.kind = "error" THEN friendly_error(env.outcome.text)
    ELSE IF env.outcome.content.t = "none" THEN friendly_error(NoneStripText)
    ELSE strip(env.outcome.content.v)

\* the str call_llm returns, whatever the request
llm_reply(env) ==
    IF ~truthy(env.api_key) THEN NoKeyMessage
    ELSE IF env.outcome.kind = "error" THEN friendly_error(env.outcome.text)
    ELSE IF env.outcome.content.t = "none" THEN friendly_error(NoneStripText)
    ELSE strip(env.outcome.content.v)

\* call_llm sending a failed request a second time
llm_returns_retried(system_prompt, user_content, env, reply) ==
    Returned(reply,
             IF truthy(env.api_key) /\ env.outcome.kind = "error"
             THEN <<GatewayCall(system_prompt, user_content, TRUE, reply),
                    GatewayCall(system_prompt, user_content, TRUE, reply)>>
             ELSE <<GatewayCall(system_prompt, user_content, truthy(env.api_key), reply)>>)

\* call_llm, its return value being reply
llm_returns(system_prompt, user_content, env, reply) ==
    Returned(reply, <<GatewayCall(system_prompt, user_content, truthy(env.api_key), reply)>>)

call_llm(system_prompt, user_content, env) ==
    llm_returns(system_prompt, user_content, env, llm_reply(env))

JsonHint == <<"\n","\n","I","M","P","O","R","T","A","N","T",":"," ","R","e","s","p","o","n","d"," ",
              "w","i","t","h"," ","v","a","l","i","d"," ","J","S","O","N"," ","o","n","l","y",",",
              " ","n","o"," ","a","d","d","i","t","i","o","n","a","l"," ","t","e","x","t",".">>

call_llm_with_json(system_prompt, user_content, env) ==
    IF system_prompt.t # "str" THEN Raised("TypeError", <<>>)
    ELSE call_llm(PyStr(system_prompt.v \o JsonHint), user_content, env)

\* the external service answers a request only if its system message is text;
\* otherwise the client or the service rejects it with an exception
request_served(gateway_call, env) ==
    gateway_call.system.t = "str" \/ ~gateway_call.net \/ env.outcome.kind = "error"

(***************************************************************************)
(* Data model (backend/models.py).                                         *)
(***************************************************************************)
\* to_addr and raw_folder, which no operation reads, are left out
Email(id, from_addr, subject, body, timestamp, category) ==
    [id |-> id, from_addr |-> from_addr, subject |-> subject, body |-> body,
     timestamp |-> timestamp, category |-> category]

ActionItem(task, deadline, email_id) ==
    [task |-> task, deadline |-> deadline, email_id |-> email_id]

\* created_at, the wall-clock time of construction, is left out
DraftEmail(original_email_id, subject, body, suggested_tone, metadata) ==
    [original_email_id |-> original_email_id, subject |-> subject, body |-> body,
     suggested_tone |-> suggested_tone, metadata |-> metadata]

(***************************************************************************)
(* Processing Pipeline (backend/processors.py).                            *)
(***************************************************************************)
valid_categories == <<<<"I","m","p","o","r","t","a","n","t">>, <<"N","e","w","s","l","e","t","t","e","r">>, <<"S","p","a","m">>, <<"T","o","-","D","o">>>>

\* the user message of categorize_email and extract_action_items
email_content(email) ==
    <<"S","u","b","j","e","c","t",":"," ">> \o format(email.subject) \o <<"\n","F","r","o","m",":"," ">> \o format(email.from_addr)
        \o <<"\n","\n">> \o format(email.body)

\* the user message of summarize_email
dated_content(email) ==
    <<"S","u","b","j","e","c","t",":"," ">> \o format(email.subject) \o <<"\n","F","r","o","m",":"," ">> \o format(email.from_addr)
        \o <<"\n","D","a","t","e",":"," ">> \o format(email.timestamp) \o <<"\n","\n">> \o format(email.body)

\* prompts.get(key, default): prompts is whatever load_prompts returned
prompt_of(prompts, key, default) == dict_get(prompts, key, PyStr(default))

\* the validation left out: whatever the Gateway said is the category
valid_or_default_unchecked(category) == category

\* the validation of category
valid_or_default(category) ==
    IF \E i \in 1..Len(valid_categories) : valid_categories[i] = category
    THEN category
    ELSE <<"I","m","p","o","r","t","a","n","t">>

\* the category read off a Gateway response
category_of(response) == valid_or_default(strip(first_line(strip(response))))

\* categorize_email behind its Gateway call r
categorized(r) == Returned(category_of(r.value), r.calls)

categorize_system(prompts) == prompt_of(prompts, <<"c","a","t","e","g","o","r","i","z","a","t","i",
                                                   "o","n">>, <<"C","a","t","e","g","o","r","i","z","e",
                                                                " ","t","h","i","s"," ","e","m","a","i",
                                                                "l",".">>)

categorize_email(email, prompts, env) ==
    IF prompts.t # "dict" THEN Raised("AttributeError", <<>>)
    ELSE categorized(call_llm(categorize_system(prompts), email_content(email), env))

\* the text handed to json.loads
bracketed(response, json_start, json_end) ==
    IF json_start >= 0 /\ json_end > json_start
    THEN slice(response, json_start, json_end)
    ELSE response

\* the closing bracket searched from the left
json_candidate_first_close(response) ==
    bracketed(response, find(response, "["), find(response, "]") + 1)

json_candidate(response) ==
    bracketed(response, find(response, "["), rfind(response, "]") + 1)

RECURSIVE action_items_of(_, _)
\* the loop over tasks_data, a list
action_items_of(items, email_id) ==
    IF items = <<>> THEN <<>>
    ELSE IF Head(items).t = "dict"
         THEN <<ActionItem(dict_get(Head(items), <<"t","a","s","k">>, PyStr(<<>>)),
                           dict_get(Head(items), <<"d","e","a","d","l","i","n","e">>, PyNone),
                           email_id)>> \o action_items_of(Tail(items), email_id)
    ELSE action_items_of(Tail(items), email_id)

\* the loop over what json.loads gave: a list is walked; the keys of a dict
\* and the characters of a str are str, no dict; the other values are not
\* iterable (TypeError); a JSONDecodeError gives [] as every exception does
items_of_data(tasks_data, email_id) ==
    IF ~tasks_data.ok THEN <<>>
    ELSE IF tasks_data.val.t = "list" THEN action_items_of(tasks_data.val.v, email_id)
    ELSE <<>>

\* the try block of extract_action_items; every exception gives []
parse_action_items(response, email_id) ==
    items_of_data(json_loads(json_candidate(response)), email_id)

\* the parse left outside the try: a JSONDecodeError escapes
extracted_unguarded(email, r) ==
    IF r.raised THEN r
    ELSE IF ~json_loads(json_candidate(r.value)).ok THEN Raised("JSONDecodeError", r.calls)
    ELSE Returned(parse_action_items(r.value, email.id), r.calls)

\* extract_action_items behind its Gateway call r, which is outside the try
extracted(email, r) ==
    IF r.raised THEN r ELSE Returned(parse_action_items(r.value, email.id), r.calls)

extract_system(prompts) == prompt_of(prompts, <<"a","c","t","i","o","n","_","i","t","e","m">>, <<"E","x","t","r","a","c","t"," ","t","a",
                                                                                                 "s","k","s"," ","f","r","o","m"," ","t",
                                                                                                 "h","e"," ","e","m","a","i","l",".">>)

extract_action_items(email, prompts, env) ==
    IF prompts.t # "dict" THEN Raised("AttributeError", <<>>)
    ELSE extracted(email,
                   call_llm_with_json(extract_system(prompts), email_content(email), env))

summarize_system(prompts) == prompt_of(prompts, <<"s","u","m","m","a","r","y">>, <<"S","u","m","m","a","r","i","z","e"," ",
                                                                                   "t","h","i","s"," ","e","m","a","i","l",
                                                                                   ".">>)

summarize_email(email, prompts, env) ==
    IF prompts.t # "dict" THEN Raised("AttributeError", <<>>)
    ELSE call_llm(summarize_system(prompts), dated_content(email), env)

\* the user message of draft_reply
reply_content(email) ==
    <<"O","r","i","g","i","n","a","l"," ","E","m","a","i","l",":","\n">> \o dated_content(email) \o <<"\n","\n","-","-","-","\n","D","r","a",
                                                                                                      "f","t"," ","a"," ","r","e","p","l","y",
                                                                                                      " ","t","o"," ","t","h","i","s"," ","e",
                                                                                                      "m","a","i","l",".">>

\* system_prompt += f"\n\nTone: {user_tone}": a str is extended, a list takes the
\* characters as new elements, every other value raises TypeError
add_text(system_prompt, text) ==
    IF system_prompt.t = "str" THEN PyStr(system_prompt.v \o text)
    ELSE PyList(system_prompt.v \o [i \in 1..Len(text) |-> PyStr(<<text[i]>>)])

can_add_text(system_prompt) == system_prompt.t \in {"str", "list"}

reply_prompt(prompts) == prompt_of(prompts, <<"a","u","t","o","_","r","e","p","l","y">>, <<"D","r","a","f","t"," ","a"," ","p","r",
                                                                                           "o","f","e","s","s","i","o","n","a","l",
                                                                                           " ","r","e","p","l","y",".">>)

draft_system(prompts, user_tone) ==
    IF truthy(user_tone)
    THEN add_text(reply_prompt(prompts), <<"\n","\n","T","o","n","e",":"," ">> \o format(user_tone))
    ELSE reply_prompt(prompts)

\* the prefix left off an empty subject
draft_subject_bare(email) ==
    IF format(email.subject) = <<>> THEN <<>> ELSE <<"R","e",":"," ">> \o format(email.subject)

draft_subject(email) == <<"R","e",":"," ">> \o format(email.subject)

\* draft_reply behind its Gateway call r
drafted(email, user_tone, r) ==
    Returned(DraftEmail(email.id, draft_subject(email), r.value, user_tone,
                        [original_from |-> email.from_addr,
                         original_subject |-> email.subject,
                         category |-> email.category]),
             r.calls)

draft_reply(email, prompts, user_tone, env) ==
    IF prompts.t # "dict" THEN Raised("AttributeError", <<>>)
    ELSE IF truthy(user_tone) /\ ~can_add_text(reply_prompt(prompts))
         THEN Raised("TypeError", <<>>)
    ELSE drafted(email, user_tone,
                 call_llm(draft_system(prompts, user_tone), reply_content(email), env))

(***************************************************************************)
(* Query Router (backend/agent.py).                                        *)
(***************************************************************************)
\* selected_email is an Email or NoEmail (Python's None)
NoEmail == [none |-> TRUE]

Uncategorized == <<"U","n","c","a","t","e","g","o","r","i","z","e","d">>

\* email.category or 'Uncategorized'
category_or_default(email) ==
    IF truthy(email.category) THEN format(email.category) ELSE Uncategorized

email_context(selected_email) ==
    IF selected_email = NoEmail THEN <<>>
    ELSE <<"\n","C","u","r","r","e","n","t","l","y"," ","S","e","l","e","c","t","e","d"," ","E","m",
           "a","i","l",":","\n","I","D",":"," ">> \o format(selected_email.id)
         \o <<"\n","F","r","o","m",":"," ">> \o format(selected_email.from_addr)
         \o <<"\n","S","u","b","j","e","c","t",":"," ">> \o format(selected_email.subject)
         \o <<"\n","C","a","t","e","g","o","r","y",":"," ">> \o category_or_default(selected_email)
         \o <<"\n","D","a","t","e",":"," ">> \o format(selected_email.timestamp)
         \o <<"\n","\n","B","o","d","y",":","\n">> \o format(selected_email.body) \o <<"\n">>

\* categories.get(cat, 0) + 1
counted(counts, cat) ==
    dict_set(counts, cat,
             IF \E i \in 1..Len(counts) : counts[i][1] = cat
             THEN counts[CHOOSE i \in 1..Len(counts) : counts[i][1] = cat][2] + 1
             ELSE 1)

RECURSIVE category_counts(_, _)
\* the categories dict: <<category, count>> in order of first appearance
category_counts(inbox, counts) ==
    IF inbox = <<>> THEN counts
    ELSE category_counts(Tail(inbox), counted(counts, category_or_default(Head(inbox))))

\* the text of the categories dict
overview_of(inbox, counts) ==
    <<"\n","T","o","t","a","l"," ","e","m","a","i","l","s"," ","i","n"," ","i","n","b","o","x",":",
      " ">> \o str_of_nat(Len(inbox)) \o <<"\n">>
        \o (IF inbox = <<>> THEN <<>>
            ELSE <<"C","a","t","e","g","o","r","i","e","s",":"," ">>
                 \o join(<<","," ">>, [i \in 1..Len(counts) |->
                                   counts[i][1] \o <<":"," ">> \o str_of_nat(counts[i][2])]))

inbox_overview(inbox) == overview_of(inbox, category_counts(inbox, <<>>))

Capabilities ==
    <<"\n","\n","A","v","a","i","l","a","b","l","e"," ","c","a","p","a","b","i","l","i","t","i","e",
      "s",":","\n","-"," ","S","u","m","m","a","r","i","z","e"," ","e","m","a","i","l","s","\n","-",
      " ","E","x","t","r","a","c","t"," ","a","c","t","i","o","n"," ","i","t","e","m","s"," ","a",
      "n","d"," ","t","a","s","k","s","\n","-"," ","D","r","a","f","t"," ","r","e","p","l","i","e",
      "s","\n","-"," ","C","a","t","e","g","o","r","i","z","e"," ","e","m","a","i","l","s"," ","(",
      "I","m","p","o","r","t","a","n","t",","," ","N","e","w","s","l","e","t","t","e","r",","," ",
      "S","p","a","m",","," ","T","o","-","D","o",")","\n","-"," ","F","i","l","t","e","r"," ","a",
      "n","d"," ","s","e","a","r","c","h"," ","e","m","a","i","l","s","\n","\n","W","h","e","n"," ",
      "a","s","k","e","d"," ","a","b","o","u","t"," ","t","a","s","k","s"," ","o","r"," ","t","o",
      "-","d","o","s",","," ","c","h","e","c","k"," ","i","f"," ","e","m","a","i","l","s"," ","a",
      "r","e"," ","c","a","t","e","g","o","r","i","z","e","d"," ","a","s"," ","\"","T","o","-","D",
      "o","\"",".","\n","W","h","e","n"," ","a","s","k","e","d"," ","a","b","o","u","t"," ","u","r",
      "g","e","n","t"," ","e","m","a","i","l","s",","," ","l","o","o","k"," ","f","o","r"," ","\"",
      "I","m","p","o","r","t","a","n","t","\""," ","c","a","t","e","g","o","r","y",".","\n","B","e",
      " ","h","e","l","p","f","u","l",","," ","c","o","n","c","i","s","e",","," ","a","n","d"," ",
      "a","c","t","i","o","n","a","b","l","e",".","\n">>

agent_prompt(prompts) ==
    prompt_of(prompts, <<"g","e","n","e","r","a","l","_","a","g","e","n","t">>, <<"Y","o","u"," ","a","r","e"," ","a","n",
                                                                                  " ","E","m","a","i","l"," ","P","r","o",
                                                                                  "d","u","c","t","i","v","i","t","y"," ",
                                                                                  "A","g","e","n","t",".">>)

agent_system(prompts) == add_text(agent_prompt(prompts), Capabilities)

user_message(user_query, selected_email, inbox) ==
    inbox_overview(inbox) \o <<"\n","\n">> \o email_context(selected_email)
        \o <<"\n","\n","U","s","e","r"," ","Q","u","e","r","y",":"," ">> \o user_query

\* e.category == label
in_category(inbox, label) == SelectSeq(inbox, LAMBDA e : e.category = PyStr(label))

\* emails[:6]
first_six(emails) == SubSeq(emails, 1, IF Len(emails) > 6 THEN 6 ELSE Len(emails))

\* emails[:5]
first_five(emails) == SubSeq(emails, 1, IF Len(emails) > 5 THEN 5 ELSE Len(emails))

RECURSIVE listing_lines(_)
listing_lines(emails) ==
    IF emails = <<>> THEN <<>>
    ELSE <<"-"," ","*","*","I","D"," ">> \o format(Head(emails).id) \o <<"*","*",":"," ">> \o format(Head(emails).subject)
         \o <<" ","(","f","r","o","m"," ">> \o format(Head(emails).from_addr) \o <<")","\n">>
         \o listing_lines(Tail(emails))

\* the text built for a non-empty list of matching emails
listing(header, emails) ==
    header \o str_of_nat(Len(emails)) \o <<")",":","*","*","\n","\n">> \o listing_lines(first_five(emails))
        \o (IF Len(emails) > 5
            THEN <<"\n",".",".","."," ","a","n","d"," ">> \o str_of_nat(Len(emails) - 5) \o <<" ","m","o","r","e">>
            ELSE <<>>)

NoImportantMessage == <<"N","o"," ","e","m","a","i","l","s"," ","m","a","r","k","e","d"," ","a","s",
                        " ","I","m","p","o","r","t","a","n","t",".">>

NoTodoMessage == <<"N","o"," ","e","m","a","i","l","s"," ","c","a","t","e","g","o","r","i","z","e",
                   "d"," ","a","s"," ","T","o","-","D","o",".">>

NoTasksMessage == <<"N","o"," ","s","p","e","c","i","f","i","c"," ","t","a","s","k","s"," ","f","o",
                    "u","n","d"," ","i","n"," ","t","h","i","s"," ","e","m","a","i","l",".">>

ImportantHeader == <<"(red)"," ","*","*","I","m","p","o","r","t","a","n","t"," ","E","m","a","i",
                     "l","s"," ","(">>

TodoHeader == <<"(clipboard)"," ","*","*","T","o","-","D","o"," ","E","m","a","i","l","s"," ","(">>

SummaryHeader(selected_email) ==
    <<"(e-mail)"," ","*","*","S","u","m","m","a","r","y"," ","o","f"," ","E","m","a","i","l"," ","#">> \o format(selected_email.id) \o <<":","*","*","\n","\n">>

TasksHeader(selected_email) ==
    <<"(check)"," ","*","*","T","a","s","k","s"," ","f","r","o","m"," ","E","m","a","i","l"," ","#">> \o format(selected_email.id) \o <<":","*","*","\n","\n">>

\* one line of tasks_text
task_line(action) ==
    <<"-"," ">> \o format(action.task)
        \o (IF truthy(action.deadline)
            THEN <<" ","(","D","u","e",":"," ">> \o format(action.deadline) \o <<")">>
            ELSE <<>>)

\* the conditions of the four keyword patterns, on query_lower
wants_summary(query_lower, selected_email) ==
    /\ selected_email # NoEmail
    /\ contains(query_lower, <<"s","u","m","m","a","r","i","z","e">>) \/ contains(query_lower, <<"s","u","m","m","a","r","y">>)
    /\ contains(query_lower, <<"t","h","i","s">>) \/ contains(query_lower, <<"e","m","a","i","l">>)

wants_tasks(query_lower, selected_email) ==
    /\ selected_email # NoEmail
    /\ \/ contains(query_lower, <<"t","a","s","k">>)
       \/ contains(query_lower, <<"t","o","-","d","o">>)
       \/ contains(query_lower, <<"a","c","t","i","o","n">>)
    /\ contains(query_lower, <<"t","h","i","s">>) \/ contains(query_lower, <<"e","m","a","i","l">>)

wants_important(query_lower) ==
    contains(query_lower, <<"u","r","g","e","n","t">>) \/ contains(query_lower, <<"i","m","p","o","r","t","a","n","t">>)

wants_todo(query_lower) ==
    contains(query_lower, <<"t","o","-","d","o">>) \/ contains(query_lower, <<"t","o","d","o">>)

\* pattern 1 behind summarize_email, whose outcome is r
summary_answer(selected_email, r) ==
    IF r.raised THEN r ELSE Returned(SummaryHeader(selected_email) \o r.value, r.calls)

\* pattern 2 behind extract_action_items, whose outcome is r
tasks_answer(selected_email, r) ==
    IF r.raised THEN r
    ELSE IF r.value # <<>>
    THEN Returned(TasksHeader(selected_email)
                      \o join(<<"\n">>, [i \in 1..Len(r.value) |-> task_line(r.value[i])]),
                  r.calls)
    ELSE Returned(NoTasksMessage, r.calls)

\* the test for no match left out
listing_always(header, none_message, emails) == Returned(listing(header, emails), <<>>)

\* patterns 3 and 4 behind the filter, whose outcome is emails
listing_answer(header, none_message, emails) ==
    IF emails # <<>> THEN Returned(listing(header, emails), <<>>)
    ELSE Returned(none_message, <<>>)

\* the listings tested before the patterns of the selected email
routed_lists_first(user_query, query_lower, selected_email, prompts, inbox, env) ==
    IF wants_important(query_lower)
    THEN listing_answer(ImportantHeader, NoImportantMessage, in_category(inbox, <<"I","m","p","o","r","t","a","n","t">>))
    ELSE IF wants_todo(query_lower)
    THEN listing_answer(TodoHeader, NoTodoMessage, in_category(inbox, <<"T","o","-","D","o">>))
    ELSE IF wants_summary(query_lower, selected_email)
    THEN summary_answer(selected_email, summarize_email(selected_email, prompts, env))
    ELSE IF wants_tasks(query_lower, selected_email)
    THEN tasks_answer(selected_email, extract_action_items(selected_email, prompts, env))
    ELSE call_llm(agent_system(prompts), user_message(user_query, selected_email, inbox), env)

\* the keyword patterns in their order, then the general call
routed(user_query, query_lower, selected_email, prompts, inbox, env) ==
    IF wants_summary(query_lower, selected_email)
    THEN summary_answer(selected_email, summarize_email(selected_email, prompts, env))
    ELSE IF wants_tasks(query_lower, selected_email)
    THEN tasks_answer(selected_email, extract_action_items(selected_email, prompts, env))
    ELSE IF wants_important(query_lower)
    THEN listing_answer(ImportantHeader, NoImportantMessage, in_category(inbox, <<"I","m","p","o","r","t","a","n","t">>))
    ELSE IF wants_todo(query_lower)
    THEN listing_answer(TodoHeader, NoTodoMessage, in_category(inbox, <<"T","o","-","D","o">>))
    ELSE call_llm(agent_system(prompts), user_message(user_query, selected_email, inbox), env)

\* the answer, once the system prompt is built
route_query(user_query, selected_email, prompts, inbox, env) ==
    routed(user_query, lower(user_query), selected_email, prompts, inbox, env)

run_agent_query(user_query, selected_email, prompts, inbox, env) ==
    IF prompts.t # "dict" THEN Raised("AttributeError", <<>>)
    ELSE IF ~can_add_text(agent_prompt(prompts)) THEN Raised("TypeError", <<>>)
    ELSE route_query(user_query, selected_email, prompts, inbox, env)

(***************************************************************************)
(* Template Store defaults (backend/prompts_manager.py).                   *)
(***************************************************************************)
get_default_prompts ==
    PyDict(<<
        <<<<"c","a","t","e","g","o","r","i","z","a","t","i","o","n">>, PyStr(<<"C","a","t","e","g","o","r","i","z","e",
                                                                               " ","t","h","i","s"," ","e","m","a","i",
                                                                               "l"," ","i","n","t","o"," ","o","n","e",
                                                                               " ","o","f",":"," ","I","m","p","o","r",
                                                                               "t","a","n","t",","," ","N","e","w","s",
                                                                               "l","e","t","t","e","r",","," ","S","p",
                                                                               "a","m",","," ","T","o","-","D","o",".",
                                                                               " ","T","o","-","D","o"," ","e","m","a",
                                                                               "i","l","s"," ","m","u","s","t"," ","i",
                                                                               "n","c","l","u","d","e"," ","a"," ","d",
                                                                               "i","r","e","c","t"," ","r","e","q","u",
                                                                               "e","s","t"," ","r","e","q","u","i","r",
                                                                               "i","n","g"," ","u","s","e","r"," ","a",
                                                                               "c","t","i","o","n","."," ","R","e","s",
                                                                               "p","o","n","d"," ","w","i","t","h"," ",
                                                                               "o","n","l","y"," ","t","h","e"," ","c",
                                                                               "a","t","e","g","o","r","y"," ","n","a",
                                                                               "m","e",".">>)>>,
        <<<<"a","c","t","i","o","n","_","i","t","e","m">>, PyStr(<<"E","x","t","r","a","c","t"," ","t","a",
                                                                   "s","k","s"," ","f","r","o","m"," ","t",
                                                                   "h","e"," ","e","m","a","i","l","."," ",
                                                                   "R","e","s","p","o","n","d"," ","i","n",
                                                                   " ","J","S","O","N"," ","l","i","s","t",
                                                                   " ","f","o","r","m","a","t",":"," ","[",
                                                                   " ","{"," ","\"","t","a","s","k","\"",
                                                                   ":"," ","\"",".",".",".","\"",","," ",
                                                                   "\"","d","e","a","d","l","i","n","e",
                                                                   "\"",":"," ","\"",".",".",".","\""," ",
                                                                   "}"," ","]","."," ","I","f"," ","n","o",
                                                                   " ","t","a","s","k","s",","," ","r","e",
                                                                   "t","u","r","n"," ","a","n"," ","e","m",
                                                                   "p","t","y"," ","l","i","s","t"," ","[",
                                                                   "]",".">>)>>,
        <<<<"a","u","t","o","_","r","e","p","l","y">>, PyStr(<<"I","f"," ","t","h","e"," ","e","m","a",
                                                               "i","l"," ","i","s"," ","a"," ","m","e",
                                                               "e","t","i","n","g"," ","r","e","q","u",
                                                               "e","s","t",","," ","d","r","a","f","t",
                                                               " ","a"," ","p","o","l","i","t","e",",",
                                                               " ","c","o","n","c","i","s","e"," ","r",
                                                               "e","p","l","y"," ","a","s","k","i","n",
                                                               "g"," ","f","o","r"," ","a","n"," ","a",
                                                               "g","e","n","d","a"," ","a","n","d"," ",
                                                               "p","r","o","p","o","s","i","n","g"," ",
                                                               "1","-","2"," ","t","i","m","e"," ","s",
                                                               "l","o","t","s","."," ","M","a","i","n",
                                                               "t","a","i","n"," ","a"," ","p","r","o",
                                                               "f","e","s","s","i","o","n","a","l"," ",
                                                               "t","o","n","e",".">>)>>,
        <<<<"s","u","m","m","a","r","y">>, PyStr(<<"S","u","m","m","a","r","i","z","e"," ","t","h",
                                                   "e"," ","f","o","l","l","o","w","i","n","g"," ",
                                                   "e","m","a","i","l"," ","i","n"," ","2",
                                                   "(en dash)","3"," ","b","u","l","l","e","t"," ",
                                                   "p","o","i","n","t","s",","," ","f","o","c","u",
                                                   "s","i","n","g"," ","o","n"," ","k","e","y"," ",
                                                   "i","n","f","o","r","m","a","t","i","o","n"," ",
                                                   "a","n","d"," ","a","n","y"," ","r","e","q","u",
                                                   "i","r","e","d"," ","a","c","t","i","o","n","s",
                                                   ".">>)>>,
        <<<<"g","e","n","e","r","a","l","_","a","g","e","n","t">>, PyStr(<<"Y","o","u"," ","a","r","e"," ","a","n",
                                                                           " ","E","m","a","i","l"," ","P","r","o",
                                                                           "d","u","c","t","i","v","i","t","y"," ",
                                                                           "A","g","e","n","t"," ","h","e","l","p",
                                                                           "i","n","g"," ","t","h","e"," ","u","s",
                                                                           "e","r"," ","m","a","n","a","g","e"," ",
                                                                           "t","h","e","i","r"," ","i","n","b","o",
                                                                           "x","."," ","A","l","w","a","y","s"," ",
                                                                           "u","s","e"," ","t","h","e"," ","s","t",
                                                                           "o","r","e","d"," ","p","r","o","m","p",
                                                                           "t","s"," ","a","s"," ","b","e","h","a",
                                                                           "v","i","o","r","a","l"," ","i","n","s",
                                                                           "t","r","u","c","t","i","o","n","s"," ",
                                                                           "w","h","e","n","e","v","e","r"," ","r",
                                                                           "e","l","e","v","a","n","t",".">>)>>
    >>)

PromptKeys ==
    <<<<"c","a","t","e","g","o","r","i","z","a","t","i","o","n">>, <<"a","c","t","i","o","n","_","i","t","e",
                                                                     "m">>, <<"a","u","t","o","_","r","e","p","l","y">>, <<"s","u","m","m","a","r","y">>, <<"g","e","n","e","r","a","l","_","a","g",
                                                                                                                                                            "e","n","t">>>>

(***************************************************************************)
(* The inputs the operations are exercised on.                             *)
(***************************************************************************)
RECURSIVE texts_upto(_, _)
\* the concatenations of at most n fragments
texts_upto(fragments, n) ==
    IF n = 0 THEN {<<>>}
    ELSE LET shorter == texts_upto(fragments, n - 1)
         IN  shorter \cup {t \o f : t \in shorter, f \in fragments}

\* what os.getenv("OPENAI_API_KEY") can give
ApiKeys == {PyNone, PyStr(<<>>), PyStr(<<"s","k","-","t","e","s","t">>)}

Content(content) ==
    [kind |-> "content", class |-> "none", text |-> <<>>, content |-> content]

Failure(class, text) ==
    [kind |-> "error", class |-> class, text |-> text, content |-> PyNone]

\* str() of an exception of each class of failure, as the client words it:
\* each carries the cue of its own class
ErrorFragments ==
    {[class |-> "auth", text |-> <<"E","r","r","o","r"," ","c","o","d","e",":"," ","4","0","1"," ",
                                   "-"," ","i","n","v","a","l","i","d","_","a","p","i","_","k","e",
                                   "y">>],
     [class |-> "auth", text |-> <<"A","u","t","h","e","n","t","i","c","a","t","i","o","n","E","r",
                                   "r","o","r",":"," ","b","a","d"," ","c","r","e","d","e","n","t",
                                   "i","a","l","s">>],
     [class |-> "rate", text |-> <<"E","r","r","o","r"," ","c","o","d","e",":"," ","4","2","9"," ",
                                   "-"," ","R","a","t","e","_","L","i","m","i","t","_","e","x","c",
                                   "e","e","d","e","d">>],
     [class |-> "model", text |-> <<"T","h","e"," ","m","o","d","e","l"," ","g","p","t","-","x"," ",
                                    "d","o","e","s"," ","n","o","t"," ","e","x","i","s","t">>],
     [class |-> "other", text |-> <<"C","o","n","n","e","c","t","i","o","n"," ","e","r","r","o","r",
                                    ".">>]}

\* what the text of an exception may go on with
ErrorDetails ==
    {<<" ","C","h","e","c","k"," ","y","o","u","r"," ","a","p","i","_","k","e","y",".">>, <<" ","R","e","q","u","e","s","t","e","d",
                                                                                            " ","m","o","d","e","l",":"," ","g","p",
                                                                                            "t","-","x",".">>, <<" ","(","r","a","t","e","_","l","i","m",
                                                                                                                 "i","t",")">>,
     <<" ","R","e","t","r","y"," ","l","a","t","e","r",".">>}

\* a failure of a class, whose text starts with the words of the class and
\* may go on with details that carry the cues of other classes
Failures(n) ==
    {Failure(f.class, f.text \o rest) :
        f \in ErrorFragments, rest \in texts_upto(ErrorDetails, n - 1)}

Envs(keys, outcomes) == {[api_key |-> k, outcome |-> o] : k \in keys, o \in outcomes}

\* a template slot that json.load produced from something other than a string
BadSlots == {PyInt(<<"5">>), PyNone, PyList(<<>>)}

\* a template set with every slot holding x
all_slots(x) == PyDict([i \in 1..Len(PromptKeys) |-> <<PromptKeys[i], x>>])

\* what load_prompts can return: the defaults, a file's object with its slots
\* missing or not strings, a file's value that is no object
PromptSets ==
    {get_default_prompts, PyDict(<<>>), PyList(<<>>)} \cup {all_slots(x) : x \in BadSlots}

SystemPrompts == {PyStr(<<"C","a","t","e","g","o","r","i","z","e"," ","t","h","i","s"," ","e","m",
                          "a","i","l",".">>)} \cup BadSlots

Emails ==
    {Email(PyInt(id), PyStr(<<"a","n","n","@","e","x","a","m","p","l","e",".","c","o","m">>), PyStr(subject), PyStr(<<"S","e","e"," ","y","o","u"," ","a","t",
                                                                                                                      " ","1","0",".">>),
           PyStr(<<"2","0","2","4","-","0","1","-","0","5">>), category) :
        id \in {<<"0">>, <<"7">>},
        subject \in {<<"S","t","a","n","d","u","p">>, <<>>},
        category \in {PyNone, PyStr(<<"S","p","a","m">>)}}

OneEmail == CHOOSE e \in Emails : e.id = PyInt(<<"7">>) /\ e.subject # PyStr(<<>>) /\ e.category = PyNone

\* raw replies to a categorization request
CategoryFragments ==
    {<<"I","m","p","o","r","t","a","n","t">>, <<"N","e","w","s","l","e","t","t","e","r">>, <<"S","p","a","m">>, <<"T","o","-","D","o">>, <<"s","p","a","m">>, <<" ">>, <<"\n">>, <<"x">>}

CategoryReplies == texts_upto(CategoryFragments, MaxPieces)

SmallOutcomes ==
    {Content(PyStr(<<"T","h","a","n","k","s",","," ","n","o","t","e","d",".","\n">>)), Content(PyNone)} \cup Failures(1)

RECURSIVE json_dumps(_, _)
\* the JSON text of a value, with sp after each "," and ":"
json_dumps(x, sp) ==
    CASE x.t = "none" -> <<"n","u","l","l">>
      [] x.t = "bool" -> IF truthy(x) THEN <<"t","r","u","e">> ELSE <<"f","a","l","s","e">>
      [] x.t \in {"int", "float"} -> x.v
      [] x.t = "str" -> <<"\"">> \o x.v \o <<"\"">>
      [] x.t = "list" ->
            <<"[">> \o join(<<",">> \o sp, [i \in 1..Len(x.v) |-> json_dumps(x.v[i], sp)]) \o <<"]">>
      [] x.t = "dict" ->
            <<"{">> \o join(<<",">> \o sp,
                          [i \in 1..Len(x.v) |->
                              <<"\"">> \o x.v[i][1] \o <<"\"",":">> \o sp \o json_dumps(x.v[i][2], sp)])
                \o <<"}">>

TaskA == <<<<"t","a","s","k">>, PyStr(<<"R","e","p","l","y"," ","t","o"," ","c","l","i","e","n","t">>)>>

DeadlineFri == <<<<"d","e","a","d","l","i","n","e">>, PyStr(<<"F","r","i","d","a","y">>)>>

\* the elements a model may put in its array: task objects, complete or not,
\* and values that are no objects
ArrayElements ==
    {PyDict(<<TaskA>>), PyDict(<<TaskA, DeadlineFri>>), PyDict(<<DeadlineFri>>), PyDict(<<>>),
     PyDict(<<<<<<"t","a","s","k">>, PyNone>>, <<<<"d","e","a","d","l","i","n","e">>, PyNone>>>>),
     PyDict(<<<<<<"d","e","a","d","l","i","n","e">>, PyInt(<<"5">>)>>, <<<<"t","a","s","k">>, PyStr(<<"B","o","o","k"," ","r","o","o","m">>)>>>>),
     PyInt(<<"1">>), PyStr(<<"t","a","s","k">>), PyNone,
     PyList(<<PyDict(<<TaskA>>)>>)}

Arrays == UNION {[1..n -> ArrayElements] : n \in 0..MaxElems}

NoArray == [none |-> TRUE]

\* a reply as prefix, body, suffix; array is the value the body was written
\* from, if it was
Reply(prefix, body, suffix, array) ==
    [prefix |-> prefix, body |-> body, suffix |-> suffix, array |-> array]

reply_text(r) == r.prefix \o r.body \o r.suffix

\* bodies that are no array, or no JSON at all
OtherBodies ==
    {<<"s","o","r","r","y",","," ","I"," ","c","a","n","'","t"," ","h","e","l","p">>, <<>>, <<"{","\"","t","a","s","k","\"",":","\"",
                                                                                              "R","e","p","l","y"," ","t","o"," ","c",
                                                                                              "l","i","e","n","t","\"","}">>,
     <<"{","\"","t","a","s","k","s","\"",":","[","{","\"","t","a","s","k","\"",":","\"","R","e","p",
       "l","y"," ","t","o"," ","c","l","i","e","n","t","\"","}","]","}">>, <<"5">>, <<"\"","R","e","p","l","y"," ","t","o",
                                                                                      " ","c","l","i","e","n","t","\"">>, <<"n","u","l","l">>,
     <<"[","{","\"","t","a","s","k","\"",":","\"","R","e","p","l","y"," ","t","o"," ","c","l","i",
       "e","n","t","\"">>, <<"[","{","\"","t","a","s","k","\"",":","\"","R","e","p","l","y"," ","t",
                             "o"," ","c","l","i","e","n","t","\"",",","}","]">>,
     <<"[","{","t","a","s","k",":","\"","R","e","p","l","y"," ","t","o"," ","c","l","i","e","n","t",
       "\"","}","]">>, <<"[","{","\"","t","a","s","k","\"",":","\"","A","\"",",","\"","t","a","s",
                         "k","\"",":","\"","B","\"","}","]">>,
     <<"{","\"","t","a","s","k","\"",":","\"","R","e","p","l","y"," ","t","o"," ","c","l","i","e",
       "n","t","\"","}","]">>}

Prefixes == {<<>>, <<"H","e","r","e"," ","a","r","e"," ","t","h","e"," ","t","a","s","k","s",":",
                     "\n">>, <<"S","e","e"," ","[","1","]",":"," ">>}

Suffixes == {<<>>, <<"\n","L","e","t"," ","m","e"," ","k","n","o","w",".">>, <<" ","[","o","k">>}

ExtractReplies ==
    {Reply(p, json_dumps(PyList(a), sp), s, PyList(a)) :
        p \in Prefixes, a \in Arrays, sp \in {<<>>, <<" ">>}, s \in Suffixes}
    \cup {Reply(p, b, s, NoArray) : p \in Prefixes, b \in OtherBodies, s \in Suffixes}

\* the tone argument of draft_reply
Tones == {PyNone, PyStr(<<>>), PyStr(<<"F","o","r","m","a","l">>)}

(***************************************************************************)
(* One invocation of an operation of the Gateway or of the Pipeline: the   *)
(* arguments and the outside world are drawn at the start, the operation   *)
(* runs, and ret is what it handed back.                                   *)
(***************************************************************************)
NoReply == Reply(<<>>, <<>>, <<>>, NoArray)

GatewayCalls ==
    {[op |-> "call_llm", system |-> s, env |-> v] :
        s \in SystemPrompts,
        v \in Envs(ApiKeys, {Content(PyStr(<<" ","S","p","a","m"," ","\n">>)), Content(PyNone)}
                                \cup Failures(MaxPieces))}
    \cup {[op |-> "call_llm_with_json", system |-> s, env |-> v] :
            s \in SystemPrompts, v \in Envs(ApiKeys, SmallOutcomes)}

\* every template set and credential with a few outcomes, and the default
\* templates with every reply
PipelineCalls(op, replies, tones) ==
    {[op |-> op, email |-> e, prompts |-> p, env |-> v, reply |-> NoReply, user_tone |-> t] :
        e \in Emails, p \in PromptSets, v \in Envs(ApiKeys, SmallOutcomes), t \in tones}
    \cup {[op |-> op, email |-> OneEmail, prompts |-> get_default_prompts,
           env |-> [api_key |-> PyStr(<<"s","k","-","t","e","s","t">>), outcome |-> Content(PyStr(reply_text(r)))],
           reply |-> r, user_tone |-> t] : r \in replies, t \in tones}

Pending == Returned(<<>>, <<>>)

\* no session is running: the operations are called on their own
no_session ==
    /\ session_state = PyNone
    /\ prompts_json = PyNone /\ mock_inbox_json = PyNone /\ OPENAI_API_KEY = PyNone
    /\ gateway_log = <<>> /\ bulk = PyNone

InitGateway ==
    /\ no_session
    /\ call \in GatewayCalls
    /\ pc = "call"
    /\ ret = Pending

InitPipeline ==
    /\ no_session
    /\ call \in PipelineCalls("categorize_email",
                              {Reply(<<>>, b, <<>>, NoArray) : b \in CategoryReplies}, {PyNone})
                \cup PipelineCalls("extract_action_items", ExtractReplies, {PyNone})
                \cup PipelineCalls("summarize_email", {}, {PyNone})
                \cup PipelineCalls("draft_reply", {}, Tones)
    /\ pc = "call"
    /\ ret = Pending

\* the operation returns r; the world of the call can have answered the
\* requests it sent
Return(r) ==
    /\ \A i \in 1..Len(r.calls) : request_served(r.calls[i], call.env)
    /\ ret' = r
    /\ pc' = "done"
    /\ UNCHANGED <<call, session_state, world>>

CallLlm ==
    /\ pc = "call" /\ call.op = "call_llm"
    /\ Return(call_llm(call.system, <<"S","u","b","j","e","c","t",":"," ","S","t","a","n","d","u",
                                      "p">>, call.env))

CallLlmWithJson ==
    /\ pc = "call" /\ call.op = "call_llm_with_json"
    /\ Return(call_llm_with_json(call.system, <<"S","u","b","j","e","c","t",":"," ","S","t","a","n",
                                                "d","u","p">>, call.env))

Categorize ==
    /\ pc = "call" /\ call.op = "categorize_email"
    /\ Return(categorize_email(call.email, call.prompts, call.env))

ExtractActionItems ==
    /\ pc = "call" /\ call.op = "extract_action_items"
    /\ Return(extract_action_items(call.email, call.prompts, call.env))

Summarize ==
    /\ pc = "call" /\ call.op = "summarize_email"
    /\ Return(summarize_email(call.email, call.prompts, call.env))

DraftReply ==
    /\ pc = "call" /\ call.op = "draft_reply"
    /\ Return(draft_reply(call.email, call.prompts, call.user_tone, call.env))

GatewayNext == CallLlm \/ CallLlmWithJson

SpecGateway == InitGateway /\ [][GatewayNext]_vars

PipelineNext == Categorize \/ ExtractActionItems \/ Summarize \/ DraftReply

SpecPipeline == InitPipeline /\ [][PipelineNext]_vars

\* the Gateway and the Pipeline together, on every credential and template set
InitCredential ==
    /\ no_session
    /\ call \in GatewayCalls
                \cup PipelineCalls("categorize_email", {}, {PyNone})
                \cup PipelineCalls("extract_action_items", {}, {PyNone})
                \cup PipelineCalls("summarize_email", {}, {PyNone})
                \cup PipelineCalls("draft_reply", {}, Tones)
    /\ pc = "call"
    /\ ret = Pending

CredentialNext == GatewayNext \/ PipelineNext

SpecCredential == InitCredential /\ [][CredentialNext]_vars

(***************************************************************************)
(* One invocation of the Query Router.                                     *)
(***************************************************************************)
\* the words a query is made of: the cues of the keyword patterns, in
\* either case, and a word that is no cue
Words ==
    <<<<"S","u","m","m","a","r","i","z","e">>, <<"s","u","m","m","a","r","y">>, <<"t","h","i","s">>, <<"e","m","a","i","l">>, <<"t","a","s","k">>, <<"t","o","-","d","o">>, <<"a","c","t","i","o","n">>,
      <<"u","r","g","e","n","t">>, <<"I","M","P","O","R","T","A","N","T">>, <<"t","o","d","o">>, <<"h","e","l","l","o">>>>

RECURSIVE words_of(_, _)
\* the words numbered in chosen, from the i-th on, in order
words_of(chosen, i) ==
    IF i > Len(Words) THEN <<>>
    ELSE (IF i \in chosen THEN <<Words[i]>> ELSE <<>>) \o words_of(chosen, i + 1)

Queries(n) ==
    {join(<<" ">>, words_of(chosen, 1)) :
        chosen \in {c \in SUBSET (1..Len(Words)) : Cardinality(c) <= n}}

\* the inbox whose i-th record has id i and category categories[i]
InboxOf(categories) ==
    [i \in 1..Len(categories) |->
        Email(PyInt(str_of_nat(i)), PyStr(<<"a","n","n","@","e","x","a","m","p","l","e",".","c","o",
                                            "m">>), PyStr(<<"S","t","a","n","d","u","p">>),
              PyStr(<<"S","e","e"," ","y","o","u"," ","a","t"," ","1","0",".">>), PyStr(<<"2","0","2","4","-","0","1","-","0","5">>), categories[i])]

Inboxes(labels, n) == {InboxOf(c) : c \in UNION {[1..k -> labels] : k \in 0..n}}

MixedInbox == InboxOf(<<PyStr(<<"T","o","-","D","o">>), PyStr(<<"I","m","p","o","r","t","a","n","t">>), PyNone>>)

TasksReply ==
    Content(PyStr(<<"[","{","\"","t","a","s","k","\"",":","\"","R","e","p","l","y"," ","t","o"," ",
                    "c","l","i","e","n","t","\"",",","\"","d","e","a","d","l","i","n","e","\"",":",
                    "\"","F","r","i","d","a","y","\"","}",",","{","\"","t","a","s","k","\"",":",
                    "\"","B","o","o","k"," ","r","o","o","m","\"","}","]">>))

AgentCall(q, e, p, inbox, v) ==
    [op |-> "run_agent_query", user_query |-> q, selected_email |-> e, prompts |-> p,
     inbox |-> inbox, env |-> v]

\* every query on a small inbox; one query for each pattern with every
\* template set and credential; the two listings on every inbox
AgentCalls(words, records) ==
    {AgentCall(q, e, get_default_prompts, inbox, v) :
        q \in Queries(words), e \in {NoEmail, OneEmail}, inbox \in {<<>>, MixedInbox},
        v \in Envs({PyStr(<<"s","k","-","t","e","s","t">>)},
                   {Content(PyStr(<<"T","h","a","n","k","s",","," ","n","o","t","e","d",".">>)), TasksReply, Failure("other", <<"C","o","n","n","e","c","t","i","o","n",
                                                                                                                                " ","e","r","r","o","r",".">>)})}
    \cup {AgentCall(q, e, p, MixedInbox, v) :
            q \in {<<"S","u","m","m","a","r","i","z","e"," ","t","h","i","s"," ","e","m","a","i","l">>, <<"a","n","y"," ","t","a","s","k","s"," ",
                                                                                                          "i","n"," ","t","h","i","s","?">>, <<"w","h","a","t"," ","i","s"," ","u","r",
                                                                                                                                               "g","e","n","t">>,
                   <<"m","y"," ","t","o","d","o"," ","l","i","s","t">>, <<"h","e","l","l","o">>},
            e \in {NoEmail, OneEmail}, p \in PromptSets,
            v \in Envs(ApiKeys, SmallOutcomes \cup {TasksReply})}
    \cup {AgentCall(q, NoEmail, get_default_prompts, inbox,
                    [api_key |-> PyStr(<<"s","k","-","t","e","s","t">>), outcome |-> Content(PyStr(<<"T","h","a","n","k","s",","," ","n","o",
                                                                                                     "t","e","d",".">>))]) :
            q \in {<<"A","n","y","t","h","i","n","g"," ","U","R","G","E","N","T","?">>, <<"i","m","p","o","r","t","a","n","t"," ",
                                                                                          "o","r"," ","t","o","-","d","o">>},
            inbox \in Inboxes({PyStr(<<"I","m","p","o","r","t","a","n","t">>), PyStr(<<"S","p","a","m">>)}, records)}
    \cup {AgentCall(q, NoEmail, get_default_prompts, inbox,
                    [api_key |-> PyStr(<<"s","k","-","t","e","s","t">>), outcome |-> Content(PyStr(<<"T","h","a","n","k","s",","," ","n","o",
                                                                                                     "t","e","d",".">>))]) :
            q \in {<<"m","y"," ","t","o","d","o"," ","l","i","s","t">>, <<"T","o","-","D","o","?">>},
            inbox \in Inboxes({PyStr(<<"T","o","-","D","o">>), PyNone}, records)}

InitRouter ==
    /\ no_session
    /\ call \in AgentCalls(MaxWords, MaxInbox)
    /\ pc = "call"
    /\ ret = Pending

AgentQuery ==
    /\ pc = "call" /\ call.op = "run_agent_query"
    /\ Return(run_agent_query(call.user_query, call.selected_email, call.prompts,
                              call.inbox, call.env))

RouterNext == AgentQuery

SpecRouter == InitRouter /\ [][RouterNext]_vars

Init == InitGateway \/ InitPipeline \/ InitRouter

Next == GatewayNext \/ PipelineNext \/ RouterNext

Spec == Init /\ [][Next]_vars

(***************************************************************************)
(* Template Store (backend/prompts_manager.py).                            *)
(*                                                                         *)
(* A file on disk is Missing or File(text).  The files of this model hold  *)
(* no JSON at all, or an object of text values.                            *)
(***************************************************************************)
Missing == [t |-> "missing"]

File(text) == [t |-> "file", v |-> text]

\* json.load of a file that exists
json_load(file) == json_loads(file.v)

\* load_prompts, json.load having given parsed
loaded_or_default(parsed) == IF parsed.ok THEN parsed.val ELSE get_default_prompts

load_prompts(file) ==
    IF file = Missing THEN get_default_prompts ELSE loaded_or_default(json_load(file))

\* the backslash written as it is
escaped_quotes_only(c) ==
    CASE c = "\"" -> <<"\\","\"">>
      [] c = "\n" -> <<"\\","n">>
      [] c = "\t" -> <<"\\","t">>
      [] c = "\r" -> <<"\\","r">>
      [] OTHER -> <<c>>

\* json.dumps of one character of a str, ensure_ascii=False
escaped(c) ==
    CASE c = "\"" -> <<"\\","\"">>
      [] c = "\\" -> <<"\\","\\">>
      [] c = "\n" -> <<"\\","n">>
      [] c = "\t" -> <<"\\","t">>
      [] c = "\r" -> <<"\\","r">>
      [] OTHER -> <<c>>

\* the first character from j on that ESCAPE matches, or Len(text) + 1
escape_at(text, j) ==
    IF \E k \in j..Len(text) : text[k] \in {"\"", "\\", "\n", "\t", "\r"}
    THEN CHOOSE k \in j..Len(text) :
             /\ text[k] \in {"\"", "\\", "\n", "\t", "\r"}
             /\ \A m \in j..(k - 1) : text[m] \notin {"\"", "\\", "\n", "\t", "\r"}
    ELSE Len(text) + 1

RECURSIVE escape_sub(_, _, _)
\* ESCAPE.sub(replace, text) from j on, k being the next match
escape_sub(text, j, k) ==
    IF k > Len(text) THEN SubSeq(text, j, Len(text))
    ELSE SubSeq(text, j, k - 1) \o escaped(text[k])
         \o escape_sub(text, k + 1, escape_at(text, k + 1))

\* py_encode_basestring
encode_string(text) == <<"\"">> \o escape_sub(text, 1, escape_at(text, 1)) \o <<"\"">>

\* json.dump(prompts, f, indent=2, ensure_ascii=False) of a mapping of texts
json_dump(prompts_dict) ==
    IF prompts_dict.v = <<>> THEN <<"{","}">>
    ELSE <<"{","\n"," "," ">>
         \o join(<<",","\n"," "," ">>,
                 [i \in 1..Len(prompts_dict.v) |->
                     encode_string(prompts_dict.v[i][1]) \o <<":"," ">>
                     \o encode_string(prompts_dict.v[i][2].v)])
         \o <<"\n","}">>

\* what the disk does with a write: it takes it, or open() raises and the
\* file stays as it was
DiskOutcomes == {"written", "denied"}

\* save_prompts: what it returns, and the file it leaves
save_prompts(new_prompts, file, disk) ==
    IF disk = "written" THEN [value |-> TRUE, file |-> File(json_dump(new_prompts))]
    ELSE [value |-> FALSE, file |-> file]

(***************************************************************************)
(* Record Store (backend/inbox_loader.py).                                 *)
(***************************************************************************)
\* the Email built from one item of the file; an item that is no object
\* raises inside the loop and is passed over
email_of(item) ==
    Email(dict_get(item, <<"i","d">>, PyInt(<<"0">>)),
          dict_get(item, <<"f","r","o","m">>, PyStr(<<"u","n","k","n","o","w","n","@","e","x","a",
                                                      "m","p","l","e",".","c","o","m">>)),
          dict_get(item, <<"s","u","b","j","e","c","t">>, PyStr(<<"N","o"," ","S","u","b","j","e","c","t">>)),
          dict_get(item, <<"b","o","d","y">>, PyStr(<<>>)),
          dict_get(item, <<"t","i","m","e","s","t","a","m","p">>, PyStr(<<>>)),
          PyNone)

RECURSIVE emails_of(_)
\* the loop of load_inbox over the items of a list
emails_of(items) ==
    IF items = <<>> THEN <<>>
    ELSE IF Head(items).t = "dict" THEN <<email_of(Head(items))>> \o emails_of(Tail(items))
    ELSE emails_of(Tail(items))

\* load_inbox, json.load having given data: a str or an object is walked
\* item by item, no item of it being an object; any other value raises
emails_of_data(data) ==
    IF data.ok /\ data.val.t = "list" THEN emails_of(data.val.v) ELSE <<>>

load_inbox(file) == IF file = Missing THEN <<>> ELSE emails_of_data(json_load(file))

\* get_email_by_id: the first record with the id, or None
get_email_by_id(email_list, email_id) ==
    IF \E i \in 1..Len(email_list) : email_list[i].id = email_id
    THEN email_list[CHOOSE i \in 1..Len(email_list) :
                        /\ email_list[i].id = email_id
                        /\ \A j \in 1..(i - 1) : email_list[j].id # email_id]
    ELSE NoEmail

(***************************************************************************)
(* The session (app.py).  Every interaction runs the script from the top:  *)
(* the sidebar, then the four tabs in turn.  pc is "start" before the      *)
(* first run, "idle" between runs, and inside a run the part of the script *)
(* that is next: "categorize" and "extract" in the bulk pass, "inbox_tab", *)
(* "details_tab".                                                          *)
(***************************************************************************)
MaxRecords == 2

MaxChat == 1

MaxDrafts == 2

\* init_session_state of the first run; show_draft_form, read with
\* .get(..., False), starts absent
init_session_state(file, key) ==
    [emails |-> <<>>, prompts |-> load_prompts(file), processed |-> <<>>, drafts |-> <<>>,
     selected_email_id |-> PyNone, chat_history |-> <<>>, api_key_set |-> truthy(key),
     show_draft_form |-> FALSE]

\* the mapping processed or drafts holds for an id: a sequence of <<id, value>>
has_key(pairs, k) == \E i \in 1..Len(pairs) : pairs[i][1] = k

ids_of(email_list) == {email_list[i].id : i \in 1..Len(email_list)}

\* e.subject[:50]
subject_50(e) == SubSeq(e.subject.v, 1, IF Len(e.subject.v) > 50 THEN 50 ELSE Len(e.subject.v))

option_label(e) == <<"I","D"," ">> \o format(e.id) \o <<":"," ">> \o subject_50(e)

RECURSIVE email_options(_)
\* the dict of render_email_details_tab: label -> id, as <<label, id>> pairs
email_options(email_list) ==
    IF email_list = <<>> THEN <<>>
    ELSE dict_set(email_options(SubSeq(email_list, 1, Len(email_list) - 1)),
                  option_label(email_list[Len(email_list)]), email_list[Len(email_list)].id)

\* the index= argument of the selector, counted from 1
option_index(options, selected) ==
    IF selected.t = "none" THEN 1
    ELSE IF \E i \in 1..Len(options) : options[i][2] = selected
    THEN CHOOSE i \in 1..Len(options) :
             options[i][2] = selected /\ \A j \in 1..(i - 1) : options[j][2] # selected
    ELSE 1

\* the key of a View Details button repeats: st.button raises and the run ends
duplicate_key(email_list) ==
    \E i, j \in 1..Len(email_list) : i < j /\ email_list[i].id = email_list[j].id

\* a run gets as far as the details tab, the prompt tab and the chat tab
tabs_reached == ~duplicate_key(session_state.emails)

(***************************************************************************)
(* The files and the service a session runs against.                       *)
(***************************************************************************)
PartialPrompts == <<"{","\"","c","a","t","e","g","o","r","i","z","a","t","i","o","n","\"",":"," ",
                    "\"","S","o","r","t"," ","i","t",".","\"","}">>

PromptsFiles == {Missing, File(PartialPrompts)}

\* records with an id and a record without
Records ==
    <<<<"{","\"","i","d","\"",":"," ","1",","," ","\"","f","r","o","m","\"",":"," ","\"","a","n",
        "n","@","e","x","a","m","p","l","e",".","c","o","m","\"",","," ","\"","s","u","b","j","e",
        "c","t","\"",":"," ","\"","S","t","a","n","d","u","p","\"",","," ","\"","b","o","d","y",
        "\"",":"," ","\"","A","t"," ","1","0",".","\"","}">>,
      <<"{","\"","s","u","b","j","e","c","t","\"",":"," ","\"","L","u","n","c","h","?","\"","}">>,
      <<"{","\"","i","d","\"",":"," ","2",","," ","\"","s","u","b","j","e","c","t","\"",":"," ",
        "\"","I","n","v","o","i","c","e","\"","}">>>>

inbox_text(items) == <<"[">> \o join(<<","," ">>, items) \o <<"]">>

\* the files of the first records, up to n of them; a file whose records
\* share an id; a file with an item that is no object; no file
InboxFiles(n) ==
    {File(inbox_text(SubSeq(Records, 1, k))) : k \in 1..(IF n < Len(Records) THEN n ELSE Len(Records))}
    \cup {File(inbox_text(<<Records[1], Records[1]>>)), Missing, File(<<"[","5",","," ","{","\"","i","d","\"",
                                                                        ":"," ","2","}","]">>)}

\* what the service does with a request
ServiceOutcomes == {Content(PyStr(<<"S","p","a","m">>)), Failure("other", <<"C","o","n","n","e","c","t","i","o","n",
                                                                            " ","e","r","r","o","r",".">>)}

\* the world of one Gateway call of the session
env_of(outcome) == [api_key |-> OPENAI_API_KEY, outcome |-> outcome]

NoCall == [op |-> "main"]

\* what a handler was handed back, by its kind: a text, the list of action
\* items, a draft, or the exception raised
handed_back(op, r) ==
    [raised |-> r.raised,
     value |-> IF r.raised THEN [exception |-> r.value]
               ELSE IF op = "extract_action_items" THEN [items |-> r.value]
               ELSE IF op = "draft_reply" THEN [draft |-> r.value]
               ELSE [text |-> r.value],
     calls |-> r.calls]

\* no operation was invoked in the run
NoReturn == [raised |-> FALSE, value |-> [nothing |-> TRUE], calls |-> <<>>]

\* no bulk pass is under way
NoBulk == [idx |-> 0, category |-> PyNone]

files == <<prompts_json, mock_inbox_json, OPENAI_API_KEY>>

InitSession ==
    /\ call = NoCall
    /\ pc = "start"
    /\ ret = NoReturn
    /\ session_state = PyNone
    /\ prompts_json \in PromptsFiles
    /\ mock_inbox_json \in InboxFiles(MaxRecords)
    /\ OPENAI_API_KEY \in {PyNone, PyStr(<<"s","k","-","t","e","s","t">>)}
    /\ gateway_log = <<>>
    /\ bulk = NoBulk

\* the first run of the script: no records, so the tabs show nothing
SessionStart ==
    /\ pc = "start"
    /\ session_state' = init_session_state(prompts_json, OPENAI_API_KEY)
    /\ pc' = "idle"
    /\ UNCHANGED <<call, ret, world>>

\* a reload that starts the session's data over
LoadMockInboxAfresh ==
    /\ pc = "idle"
    /\ session_state' = [session_state EXCEPT !.emails = load_inbox(mock_inbox_json),
                                              !.processed = <<>>,
                                              !.drafts = <<>>]
    /\ pc' = "details_tab"
    /\ UNCHANGED <<call, ret, world>>

\* the "Load Mock Inbox" button of the sidebar; the tabs of the run follow
LoadMockInbox ==
    /\ pc = "idle"
    /\ session_state' = [session_state EXCEPT !.emails = load_inbox(mock_inbox_json),
                                              !.processed = <<>>]
    /\ pc' = "details_tab"
    /\ UNCHANGED <<call, ret, world>>

\* the "Reload Prompts" button of the sidebar
ReloadPrompts ==
    /\ pc = "idle"
    /\ session_state' = [session_state EXCEPT !.prompts = load_prompts(prompts_json)]
    /\ UNCHANGED <<call, pc, ret, world>>

\* the selected id render_email_details_tab stores when the selector shows
\* option i
selected_option(i) ==
    [session_state EXCEPT !.selected_email_id = email_options(session_state.emails)[i][2]]

\* the tabs of a run whose interaction was in the sidebar: the list of the
\* inbox tab, which ends the run on a repeated key, then the selector of
\* render_email_details_tab
EmailDetailsTab ==
    /\ pc = "details_tab"
    /\ session_state' =
           IF session_state.emails = <<>> \/ ~tabs_reached THEN session_state
           ELSE selected_option(option_index(email_options(session_state.emails),
                                             session_state.selected_email_id))
    /\ pc' = "idle"
    /\ UNCHANGED <<call, ret, world>>

\* the requests of the calls, as the Gateway was asked to send them
sent(calls) ==
    [i \in 1..Len(calls) |-> [system |-> calls[i].system, user |-> calls[i].user,
                              net |-> calls[i].net]]

\* an operation ran in the world of env and handed back r: its requests join
\* the log
Sent(env, r) ==
    /\ \A i \in 1..Len(r.calls) : request_served(r.calls[i], env)
    /\ gateway_log' = gateway_log \o sent(r.calls)

\* a handler invoked an operation as c and was handed back r
Invoked(c, r) ==
    /\ Sent(c.env, r)
    /\ call' = c
    /\ ret' = handed_back(c.op, r)

Invocation(op, email, user_tone, outcome) ==
    [op |-> op, email |-> email, prompts |-> session_state.prompts, env |-> env_of(outcome),
     user_tone |-> user_tone]

\* process_all_emails is entered: without a credential it returns at once
RunProcessing ==
    /\ pc = "idle"
    /\ session_state.emails # <<>>
    /\ session_state.api_key_set
    /\ pc' = "categorize"
    /\ bulk' = [idx |-> 1, category |-> PyNone]
    /\ UNCHANGED <<call, ret, session_state, files, gateway_log>>

\* the loop body up to the category; an exception ends the run
bulk_categorized(env, r) ==
    /\ Sent(env, r)
    /\ bulk' = IF r.raised THEN NoBulk ELSE [bulk EXCEPT !.category = PyStr(r.value)]
    /\ pc' = IF r.raised THEN "shown" ELSE "extract"

BulkCategorize ==
    /\ pc = "categorize"
    /\ \E o \in ServiceOutcomes :
           bulk_categorized(env_of(o), categorize_email(session_state.emails[bulk.idx],
                                                        session_state.prompts, env_of(o)))
    /\ UNCHANGED <<call, ret, session_state, files>>

\* the category written to every record of the list
bulk_extracted_all(env, r) ==
    /\ Sent(env, r)
    /\ session_state' =
           [session_state EXCEPT
                !.processed = dict_set(@, session_state.emails[bulk.idx].id,
                                       [category |-> bulk.category, actions |-> r.value]),
                !.emails = [i \in 1..Len(@) |-> [@[i] EXCEPT !.category = bulk.category]]]
    /\ bulk' = IF bulk.idx < Len(session_state.emails)
               THEN [idx |-> bulk.idx + 1, category |-> PyNone]
               ELSE NoBulk
    /\ pc' = IF bulk.idx < Len(session_state.emails) THEN "categorize" ELSE "shown"

\* the loop left after its first record
bulk_extracted_once(env, r) ==
    /\ Sent(env, r)
    /\ session_state' =
           [session_state EXCEPT
                !.processed = dict_set(@, session_state.emails[bulk.idx].id,
                                       [category |-> bulk.category, actions |-> r.value]),
                !.emails[bulk.idx].category = bulk.category]
    /\ bulk' = NoBulk
    /\ pc' = "shown"

\* the rest of the loop body: the actions, the entry of processed, the
\* category of the record; then the next record, or the end of the pass
bulk_extracted(env, r) ==
    /\ Sent(env, r)
    /\ session_state' =
           IF r.raised THEN session_state
           ELSE [session_state EXCEPT
                     !.processed = dict_set(@, session_state.emails[bulk.idx].id,
                                            [category |-> bulk.category, actions |-> r.value]),
                     !.emails[bulk.idx].category = bulk.category]
    /\ bulk' = IF ~r.raised /\ bulk.idx < Len(session_state.emails)
               THEN [idx |-> bulk.idx + 1, category |-> PyNone]
               ELSE NoBulk
    /\ pc' = IF ~r.raised /\ bulk.idx < Len(session_state.emails) THEN "categorize" ELSE "shown"

BulkExtract ==
    /\ pc = "extract"
    /\ \E o \in ServiceOutcomes :
           bulk_extracted(env_of(o), extract_action_items(session_state.emails[bulk.idx],
                                                          session_state.prompts, env_of(o)))
    /\ UNCHANGED <<call, ret, files>>

\* the run that called the Gateway is over
RunEnds ==
    /\ pc = "shown"
    /\ pc' = "idle"
    /\ call' = NoCall
    /\ ret' = NoReturn
    /\ gateway_log' = <<>>
    /\ UNCHANGED <<session_state, files, bulk>>

\* a "View Details" button of the list, which a run renders for the records
\* up to the first repeated key
ViewDetails ==
    /\ pc = "idle"
    /\ \E i \in 1..Len(session_state.emails) :
           /\ ~duplicate_key(SubSeq(session_state.emails, 1, i))
           /\ session_state' = [session_state EXCEPT
                                    !.selected_email_id = session_state.emails[i].id]
    /\ UNCHANGED <<call, pc, ret, world>>

\* the details tab shows a record
details_shown == tabs_reached /\ session_state.emails # <<>>

\* the user picks an option of the selector
SelectEmail ==
    /\ pc = "idle"
    /\ details_shown
    /\ \E i \in 1..Len(email_options(session_state.emails)) : session_state' = selected_option(i)
    /\ UNCHANGED <<call, pc, ret, world>>

\* email of render_email_details_tab
shown_email == get_email_by_id(session_state.emails, session_state.selected_email_id)

\* a button of the details tab that shows what an operation gives
shows(op, r) ==
    /\ Invoked(Invocation(op, shown_email, PyNone, r.outcome), r.result)
    /\ pc' = "shown"
    /\ UNCHANGED <<session_state, files, bulk>>

SummarizeButton ==
    /\ pc = "idle"
    /\ details_shown
    /\ session_state.api_key_set
    /\ \E o \in ServiceOutcomes :
           shows("summarize_email",
                 [outcome |-> o,
                  result |-> summarize_email(shown_email, session_state.prompts, env_of(o))])

ExtractTasksButton ==
    /\ pc = "idle"
    /\ details_shown
    /\ session_state.api_key_set
    /\ \E o \in ServiceOutcomes :
           shows("extract_action_items",
                 [outcome |-> o,
                  result |-> extract_action_items(shown_email, session_state.prompts,
                                                  env_of(o))])

DraftReplyButton ==
    /\ pc = "idle"
    /\ details_shown
    /\ session_state' = [session_state EXCEPT !.show_draft_form = TRUE]
    /\ UNCHANGED <<call, pc, ret, world>>

\* what the service does with the request of a draft
DraftOutcomes == {Failure("other", <<"C","o","n","n","e","c","t","i","o","n"," ","e","r","r","o",
                                     "r",".">>)}

\* the tone of the form a session picks
FormTones == {PyStr(<<"F","o","r","m","a","l">>)}

\* a draft stored only for a record that has none
draft_generated_first(c, r) ==
    /\ Invoked(c, r)
    /\ session_state' =
           [session_state EXCEPT
                !.drafts = IF has_key(@, c.email.id) THEN @ ELSE dict_set(@, c.email.id, r.value),
                !.show_draft_form = FALSE]
    /\ pc' = "shown"
    /\ UNCHANGED <<files, bulk>>

\* "Generate Draft", draft_reply having handed back r: the draft is stored
\* under the id of the record and the script runs again
draft_generated(c, r) ==
    /\ Invoked(c, r)
    /\ session_state' =
           IF r.raised THEN session_state
           ELSE [session_state EXCEPT !.drafts = dict_set(@, c.email.id, r.value),
                                      !.show_draft_form = FALSE]
    /\ pc' = "shown"
    /\ UNCHANGED <<files, bulk>>

GenerateDraft ==
    /\ pc = "idle"
    /\ details_shown
    /\ session_state.show_draft_form
    /\ session_state.api_key_set
    /\ has_key(session_state.drafts, shown_email.id) \/ Len(session_state.drafts) < MaxDrafts
    /\ \E o \in DraftOutcomes, tone \in FormTones :
           draft_generated(Invocation("draft_reply", shown_email, tone, o),
                           draft_reply(shown_email, session_state.prompts, tone, env_of(o)))

\* the five text areas of the prompt tab as they are shown
shown_prompts ==
    PyDict([i \in 1..Len(PromptKeys) |->
               <<PromptKeys[i], dict_get(session_state.prompts, PromptKeys[i], PyStr(<<>>))>>])

\* a text a user types into a text area
EditedText == <<"S","a","y"," ","\"","h","i","\"",".","\n","S","e","e"," ","C",":","\\","t","m","p">>

\* what "Save Prompts" finds in the text areas: what is shown, the summary
\* template edited
NewPrompts == {PyDict(dict_set(shown_prompts.v, <<"s","u","m","m","a","r","y">>, PyStr(EditedText)))}

\* save_prompts has returned saved
prompts_saved(new_prompts, saved) ==
    /\ prompts_json' = saved.file
    /\ session_state' = IF saved.value THEN [session_state EXCEPT !.prompts = new_prompts]
                        ELSE session_state

\* the "Save Prompts" button of the prompt tab
SavePrompts ==
    /\ pc = "idle"
    /\ tabs_reached
    /\ \E new_prompts \in NewPrompts, disk \in DiskOutcomes :
           prompts_saved(new_prompts, save_prompts(new_prompts, prompts_json, disk))
    /\ UNCHANGED <<call, pc, ret, mock_inbox_json, OPENAI_API_KEY, gateway_log, bulk>>

ChatQueries == {<<"S","u","m","m","a","r","i","z","e"," ","t","h","i","s"," ","e","m","a","i","l">>}

NoKeyResponse == <<"(","w","a","r","n","i","n","g",")"," ","A","P","I"," ","k","e","y"," ","n","o",
                   "t"," ","c","o","n","f","i","g","u","r","e","d","."," ","P","l","e","a","s","e",
                   " ","s","e","t"," ","O","P","E","N","A","I","_","A","P","I","_","K","E","Y",".">>

Message(role, content) == [role |-> role, content |-> content]

\* selected_email of render_agent_chat_tab
selected_email_of(email_list, selected) ==
    IF truthy(selected) THEN get_email_by_id(email_list, selected) ELSE NoEmail

\* the chat input with a credential, run_agent_query having handed back r
chat_answered(c, r) ==
    /\ Invoked(c, r)
    /\ session_state' =
           [session_state EXCEPT
                !.chat_history =
                    IF r.raised THEN Append(@, Message("user", c.user_query))
                    ELSE @ \o <<Message("user", c.user_query), Message("assistant", r.value)>>]
    /\ pc' = "shown"

\* the invocation of run_agent_query and what it hands back
agent_query(c) ==
    chat_answered(c, run_agent_query(c.user_query, c.selected_email, c.prompts, c.inbox, c.env))

ChatInput ==
    /\ pc = "idle"
    /\ details_shown
    /\ Len(session_state.chat_history) < 2 * MaxChat
    /\ \E user_input \in ChatQueries :
           IF session_state.api_key_set
           THEN \E o \in ServiceOutcomes :
                    agent_query(AgentCall(user_input,
                                          selected_email_of(session_state.emails,
                                                            session_state.selected_email_id),
                                          session_state.prompts, session_state.emails,
                                          env_of(o)))
           ELSE /\ session_state' =
                       [session_state EXCEPT
                            !.chat_history = @ \o <<Message("user", user_input),
                                                    Message("assistant", NoKeyResponse)>>]
                /\ UNCHANGED <<call, pc, ret, gateway_log>>
    /\ UNCHANGED <<files, bulk>>

\* the "Clear Chat History" button
ClearChat ==
    /\ pc = "idle"
    /\ details_shown
    /\ session_state' = [session_state EXCEPT !.chat_history = <<>>]
    /\ UNCHANGED <<call, pc, ret, world>>

SessionNext ==
    \/ SessionStart \/ LoadMockInbox \/ ReloadPrompts \/ EmailDetailsTab
    \/ RunProcessing \/ BulkCategorize \/ BulkExtract \/ RunEnds \/ ViewDetails \/ SelectEmail
    \/ SummarizeButton \/ ExtractTasksButton \/ DraftReplyButton \/ GenerateDraft
    \/ SavePrompts \/ ChatInput \/ ClearChat

SpecSession == InitSession /\ [][SessionNext]_vars

\* a step of the loop of process_all_emails
BulkPassMoves ==
    pc \in {"categorize", "extract"} /\ pc' \in {"categorize", "extract", "shown"} /\ pc' # pc

\* the loop runs on: each Gateway call returns
SpecSessionFair == SpecSession /\ WF_pc(BulkPassMoves)


(***************************************************************************)
(* The properties.  Text is observed from outside: by the characters of    *)
(* the Gateway's response and of the answer, and by the calls made.        *)
(***************************************************************************)
Labels == {<<"I","m","p","o","r","t","a","n","t">>, <<"N","e","w","s","l","e","t","t","e","r">>, <<"S","p","a","m">>, <<"T","o","-","D","o">>}

\* word occurs in text
Occurs(text, word) ==
    \E i \in 1..(Len(text) - Len(word) + 1) : SubSeq(text, i, i + Len(word) - 1) = word

StartsWith(text, prefix) ==
    Len(text) >= Len(prefix) /\ SubSeq(text, 1, Len(prefix)) = prefix

EndsWith(text, suffix) ==
    Len(text) >= Len(suffix) /\ SubSeq(text, Len(text) - Len(suffix) + 1, Len(text)) = suffix

\* the operation op is over and the Gateway handed it one response
Answered(op) == pc = "done" /\ call.op = op /\ Len(ret.calls) = 1

\* the response of the Gateway to the one call made
Response == ret.calls[1].reply

TrimmedFirstLine(text) == strip(first_line(text))

\* C1: categorize_email returns one of Important, Newsletter, Spam, To-Do for
\* every response of the Gateway, and returns Important whenever the trimmed
\* first line of the response is not exactly one of the four labels (a first
\* line that is a label is returned as it is).
CategoryIsLabel ==
    Answered("categorize_email") =>
        /\ ~ret.raised
        /\ ret.value \in Labels
        /\ TrimmedFirstLine(Response) \notin Labels => ret.value = <<"I","m","p","o","r","t","a","n","t">>
        /\ TrimmedFirstLine(Response) \in Labels => ret.value = TrimmedFirstLine(Response)

\* a response of several lines whose first line is a label in the wrong case
WrongCaseDefaults ==
    /\ Answered("categorize_email")
    /\ TrimmedFirstLine(Response) = <<"s","p","a","m">>
    /\ Occurs(Response, <<"\n">>)
    /\ ret.value = <<"I","m","p","o","r","t","a","n","t">>

HasOpen(text) == \E i \in 1..Len(text) : text[i] = "["

HasClose(text) == \E i \in 1..Len(text) : text[i] = "]"

FirstOpen(text) ==
    CHOOSE i \in 1..Len(text) : text[i] = "[" /\ \A j \in 1..(i - 1) : text[j] # "["

LastClose(text) ==
    CHOOSE i \in 1..Len(text) : text[i] = "]" /\ \A j \in (i + 1)..Len(text) : text[j] # "]"

\* the text from the first "[" to the last "]" when both exist in that order,
\* the whole text otherwise
Candidate(text) ==
    IF HasOpen(text) /\ HasClose(text) /\ FirstOpen(text) < LastClose(text)
    THEN SubSeq(text, FirstOpen(text), LastClose(text))
    ELSE text

\* parsed is a JSON array
IsArray(parsed) == parsed.ok /\ parsed.val.t = "list"

\* parsed is a JSON array with an object among its elements
HasObjects(parsed) ==
    IsArray(parsed) /\ \E i \in 1..Len(parsed.val.v) : parsed.val.v[i].t = "dict"

\* C2: given a response of the Gateway, extract_action_items does not raise,
\* and it returns the empty list when the response holds no JSON array of
\* objects between its first "[" and last "]" (nor as a whole): prose, an
\* error message, malformed JSON, a scalar, an object, an array without objects.
UnparseableGivesEmpty ==
    Answered("extract_action_items") =>
        /\ ~ret.raised
        /\ ~HasObjects(json_loads(Candidate(Response))) => ret.value = <<>>

\* the literal prose of the spec
ProseGivesEmpty ==
    /\ Answered("extract_action_items")
    /\ Response = <<"s","o","r","r","y",","," ","I"," ","c","a","n","'","t"," ","h","e","l","p">>
    /\ ret.value = <<>>

\* the value of key in a JSON object, or default
Field(object, key, default) ==
    IF \E i \in 1..Len(object.v) : object.v[i][1] = key
    THEN object.v[CHOOSE i \in 1..Len(object.v) : object.v[i][1] = key][2]
    ELSE default

\* objects being the object elements of an array, in order: one item each
ItemsOfObjects(objects, email_id) ==
    [i \in 1..Len(objects) |->
        [task |-> Field(objects[i], <<"t","a","s","k">>, PyStr(<<>>)),
         deadline |-> Field(objects[i], <<"d","e","a","d","l","i","n","e">>, PyNone),
         email_id |-> email_id]]

ExpectedItems(array, email_id) ==
    ItemsOfObjects(SelectSeq(array.v, LAMBDA element : element.t = "dict"), email_id)

Brackets == {"[", "]"}

BracketFree(text) == \A i \in 1..Len(text) : text[i] \notin Brackets

\* the reply was written from an array and wrapped in prose without brackets
WrappedArray ==
    /\ call.reply.array # NoArray
    /\ BracketFree(call.reply.prefix)
    /\ BracketFree(call.reply.suffix)

\* C3: extract_action_items parses the text from the first "[" to the last "]"
\* of the response when both exist in that order, the whole response
\* otherwise; when that is a JSON array, it returns one ActionItem per object
\* element, in order, with the element's task ("" without one), its deadline
\* (None without one) and the email's id.  An array wrapped in prose without
\* brackets gives the items of the array itself.
ItemsMatchArray ==
    Answered("extract_action_items") =>
        /\ IsArray(json_loads(Candidate(Response))) =>
              ret.value = ExpectedItems(json_loads(Candidate(Response)).val, call.email.id)
        /\ WrappedArray => ret.value = ExpectedItems(call.reply.array, call.email.id)

\* the array of the spec inside prose, with a second element that is skipped
ProseWrappedItems ==
    /\ Answered("extract_action_items")
    /\ call.reply.array = PyList(<<PyDict(<<TaskA, DeadlineFri>>), PyInt(<<"1">>)>>)
    /\ call.reply.prefix = <<"H","e","r","e"," ","a","r","e"," ","t","h","e"," ","t","a","s","k",
                             "s",":","\n">>
    /\ call.reply.suffix = <<"\n","L","e","t"," ","m","e"," ","k","n","o","w",".">>
    /\ ret.value = <<ActionItem(PyStr(<<"R","e","p","l","y"," ","t","o"," ","c","l","i","e","n","t">>), PyStr(<<"F","r","i","d","a","y">>), call.email.id)>>

\* C4: no operation of the Gateway, the Pipeline or the Router raises to its
\* caller, whatever the email, the outcome of the external call and the
\* template set handed over by load_prompts.
NothingRaises == pc = "done" => ~ret.raised

NoCredential == ~truthy(call.env.api_key)

\* C5: without a credential every call of the Gateway hands back the fixed
\* message and the external service is not called: call_llm returns the
\* message, and so does call_llm_with_json and every operation of the
\* Pipeline through the Gateway call it makes.
NoCredentialNoCall ==
    pc = "done" /\ NoCredential =>
        /\ \A i \in 1..Len(ret.calls) :
              ~ret.calls[i].net /\ ret.calls[i].reply = NoKeyMessage
        /\ call.op = "call_llm" => Len(ret.calls) = 1 /\ ~ret.raised
        /\ Len(ret.calls) = 1 /\ call.op \in {"call_llm", "call_llm_with_json", "summarize_email"}
              => ret.value = NoKeyMessage
        /\ Len(ret.calls) = 1 /\ call.op = "draft_reply" => ret.value.body = NoKeyMessage

\* an empty credential, a summary asked for
EmptyKeySummary ==
    /\ pc = "done"
    /\ call.op = "summarize_email"
    /\ call.env.api_key = PyStr(<<>>)
    /\ call.env.outcome.kind = "content"
    /\ Len(ret.calls) = 1
    /\ ~ret.calls[1].net
    /\ ret.value = NoKeyMessage

\* the message documented for a failure of a class
MessageOfClass(class, text) ==
    CASE class = "auth" -> AuthMessage
      [] class = "rate" -> RateLimitMessage
      [] class = "model" -> ModelMessage(text)
      [] OTHER -> LlmErrorMessage(text)

\* C6: when the external call fails, call_llm returns the message of the
\* class of the failure (authentication, rate limit, model, any other), also
\* when the text of the error carries the cue of another class.
FailureClassDecides ==
    /\ pc = "done"
    /\ call.op = "call_llm"
    /\ ~NoCredential
    /\ call.env.outcome.kind = "error"
    => ret.value = MessageOfClass(call.env.outcome.class, call.env.outcome.text)

\* C10: draft_reply returns a DraftEmail whose subject is "Re: " followed by
\* the subject of the email and whose original_email_id is the id of the
\* email, for every tone and every outcome of the Gateway.
SubjectIsRe ==
    Answered("draft_reply") =>
        /\ ~ret.raised
        /\ ret.value.subject = <<"R","e",":"," ">> \o call.email.subject.v
        /\ ret.value.original_email_id = call.email.id

\* a tone given, the Gateway failing: the body is the error message
FormalDraftOfFailure ==
    /\ Answered("draft_reply")
    /\ call.user_tone = PyStr(<<"F","o","r","m","a","l">>)
    /\ ~NoCredential
    /\ call.env.outcome.kind = "error"
    /\ StartsWith(ret.value.body, <<"(warning)">>)
    /\ ret.value.subject = <<"R","e",":"," ","S","t","a","n","d","u","p">>
    /\ ret.value.suggested_tone = PyStr(<<"F","o","r","m","a","l">>)

\* the lower-cased query of the call to the Router
Query == lower(call.user_query)

Selected == call.selected_email # NoEmail

AboutThis == Occurs(Query, <<"t","h","i","s">>) \/ Occurs(Query, <<"e","m","a","i","l">>)

\* the conditions of the intents, as documented
SummarizeThis ==
    Selected /\ (Occurs(Query, <<"s","u","m","m","a","r","i","z","e">>) \/ Occurs(Query, <<"s","u","m","m","a","r","y">>)) /\ AboutThis

TasksFromThis ==
    /\ Selected
    /\ Occurs(Query, <<"t","a","s","k">>) \/ Occurs(Query, <<"t","o","-","d","o">>) \/ Occurs(Query, <<"a","c","t","i","o","n">>)
    /\ AboutThis

ListImportant == Occurs(Query, <<"u","r","g","e","n","t">>) \/ Occurs(Query, <<"i","m","p","o","r","t","a","n","t">>)

ListTodo == Occurs(Query, <<"t","o","-","d","o">>) \/ Occurs(Query, <<"t","o","d","o">>)

\* the first intent whose condition holds
FirstIntent ==
    IF SummarizeThis THEN "summarize"
    ELSE IF TasksFromThis THEN "tasks"
    ELSE IF ListImportant THEN "important"
    ELSE IF ListTodo THEN "todo"
    ELSE "general"

\* the Router is over and has an answer
RouterAnswered == pc = "done" /\ call.op = "run_agent_query" /\ ~ret.raised

\* what a Gateway call was made for, by its request
SummaryRequest(request) ==
    StartsWith(request.user, <<"S","u","b","j","e","c","t",":"," ">>) /\ Occurs(request.user, <<"\n","D","a","t","e",":"," ">>)

TasksRequest(request) ==
    /\ StartsWith(request.user, <<"S","u","b","j","e","c","t",":"," ">>)
    /\ ~Occurs(request.user, <<"\n","D","a","t","e",":"," ">>)
    /\ request.system.t = "str"
    /\ EndsWith(request.system.v, <<"R","e","s","p","o","n","d"," ","w","i","t","h"," ","v","a","l",
                                    "i","d"," ","J","S","O","N"," ","o","n","l","y",","," ","n","o",
                                    " ","a","d","d","i","t","i","o","n","a","l"," ","t","e","x","t",
                                    ".">>)

GeneralRequest(request) ==
    /\ StartsWith(request.user, <<"\n","T","o","t","a","l"," ","e","m","a","i","l","s"," ","i","n",
                                  " ","i","n","b","o","x",":"," ">>)
    /\ EndsWith(request.user, <<"\n","\n","U","s","e","r"," ","Q","u","e","r","y",":"," ">> \o call.user_query)

\* the intent that answered, by the calls made and the text of the answer
AnsweredBy ==
    IF ret.calls = <<>>
    THEN IF ret.value = <<"N","o"," ","e","m","a","i","l","s"," ","m","a","r","k","e","d"," ","a",
                          "s"," ","I","m","p","o","r","t","a","n","t",".">>
            \/ StartsWith(ret.value, <<"(red)"," ","*","*","I","m","p","o","r","t","a","n","t"," ",
                                       "E","m","a","i","l","s"," ","(">>)
         THEN "important"
         ELSE IF ret.value = <<"N","o"," ","e","m","a","i","l","s"," ","c","a","t","e","g","o","r",
                               "i","z","e","d"," ","a","s"," ","T","o","-","D","o",".">>
                 \/ StartsWith(ret.value, <<"(clipboard)"," ","*","*","T","o","-","D","o"," ","E",
                                            "m","a","i","l","s"," ","(">>)
         THEN "todo"
         ELSE "none"
    ELSE IF Len(ret.calls) > 1 THEN "several"
    ELSE IF SummaryRequest(ret.calls[1])
            /\ ret.value = <<"(e-mail)"," ","*","*","S","u","m","m","a","r","y"," ","o","f"," ","E",
                             "m","a","i","l"," ","#">> \o call.selected_email.id.v
                               \o <<":","*","*","\n","\n">> \o Response
         THEN "summarize"
    ELSE IF TasksRequest(ret.calls[1])
            /\ \/ ret.value = <<"N","o"," ","s","p","e","c","i","f","i","c"," ","t","a","s","k","s",
                                " ","f","o","u","n","d"," ","i","n"," ","t","h","i","s"," ","e","m",
                                "a","i","l",".">>
               \/ StartsWith(ret.value, <<"(check)"," ","*","*","T","a","s","k","s"," ","f","r","o",
                                          "m"," ","E","m","a","i","l"," ","#">> \o call.selected_email.id.v
                                            \o <<":","*","*","\n","\n","-"," ">>)
         THEN "tasks"
    ELSE IF GeneralRequest(ret.calls[1]) /\ ret.value = Response THEN "general"
    ELSE "none"

\* C7: run_agent_query answers with the first of the intents summarize-this,
\* tasks-from-this, list-important, list-todo, general call whose condition
\* holds on the lower-cased query; the first two need a selected email and
\* "this" or "email" in the query.  A query matching an earlier and a later
\* intent is answered by the earlier one.
FirstIntentAnswers == RouterAnswered => AnsweredBy = FirstIntent

\* "Summarize this email" with an email selected: one call, for the summary
SummarizeDelegates ==
    /\ RouterAnswered
    /\ call.user_query = <<"S","u","m","m","a","r","i","z","e"," ","t","h","i","s"," ","e","m","a",
                           "i","l">>
    /\ Selected
    /\ AnsweredBy = "summarize"
    /\ Len(ret.calls) = 1
    /\ ~GeneralRequest(ret.calls[1])

\* the records of the inbox labelled label, in inbox order
Matching(label) == SelectSeq(call.inbox, LAMBDA record : record.category = PyStr(label))

\* C8: when the list-important or the list-todo intent answers, no Gateway
\* call is made, whatever the number of matching records; with no record of
\* the category the answer is the fixed message of the category.
ListingsCallNothing ==
    RouterAnswered /\ FirstIntent \in {"important", "todo"} =>
        /\ ret.calls = <<>>
        /\ FirstIntent = "important" /\ Matching(<<"I","m","p","o","r","t","a","n","t">>) = <<>>
              => ret.value = <<"N","o"," ","e","m","a","i","l","s"," ","m","a","r","k","e","d"," ",
                               "a","s"," ","I","m","p","o","r","t","a","n","t",".">>
        /\ FirstIntent = "todo" /\ Matching(<<"T","o","-","D","o">>) = <<>>
              => ret.value = <<"N","o"," ","e","m","a","i","l","s"," ","c","a","t","e","g","o","r",
                               "i","z","e","d"," ","a","s"," ","T","o","-","D","o",".">>

\* important emails asked for in an inbox that has records, none Important
NoneImportantFound ==
    /\ RouterAnswered
    /\ FirstIntent = "important"
    /\ Len(call.inbox) > 1
    /\ Matching(<<"I","m","p","o","r","t","a","n","t">>) = <<>>
    /\ ret.value = <<"N","o"," ","e","m","a","i","l","s"," ","m","a","r","k","e","d"," ","a","s",
                     " ","I","m","p","o","r","t","a","n","t",".">>
    /\ ret.calls = <<>>

RECURSIVE SplitLines(_)
\* text.split("\n")
SplitLines(text) ==
    IF \E i \in 1..Len(text) : text[i] = "\n"
    THEN <<SubSeq(text, 1, (CHOOSE i \in 1..Len(text) :
                               text[i] = "\n" /\ \A j \in 1..(i - 1) : text[j] # "\n") - 1)>>
         \o SplitLines(SubSeq(text, (CHOOSE i \in 1..Len(text) :
                                        text[i] = "\n" /\ \A j \in 1..(i - 1) : text[j] # "\n") + 1,
                              Len(text)))
    ELSE <<text>>

\* the lines of the answer that list a record
Bullets == SelectSeq(SplitLines(ret.value), LAMBDA line : StartsWith(line, <<"-"," ","*","*","I","D"," ">>))

\* the line that lists record
BulletOf(record) ==
    <<"-"," ","*","*","I","D"," ">> \o record.id.v \o <<"*","*",":"," ">> \o record.subject.v
        \o <<" ","(","f","r","o","m"," ">> \o record.from_addr.v \o <<")">>

\* the answer lists the first five of records, and counts the rest
ListsFirstFive(records) ==
    /\ Len(Bullets) = (IF Len(records) > 5 THEN 5 ELSE Len(records))
    /\ \A k \in 1..Len(Bullets) : Bullets[k] = BulletOf(records[k])
    /\ Len(records) > 5 <=>
          EndsWith(ret.value, <<"\n",".",".","."," ","a","n","d"," ">> \o str_of_nat(Len(records) - 5) \o <<" ","m","o","r","e">>)
    /\ Len(records) > 5 <=> Occurs(ret.value, <<"m","o","r","e">>)

\* C9: with n > 0 matching records the list-important and list-todo answers
\* list min(n, 5) records, the first ones in inbox order, and end with
\* "... and (n - 5) more" exactly when n > 5.
ListingTruncates ==
    /\ RouterAnswered /\ FirstIntent = "important" /\ Matching(<<"I","m","p","o","r","t","a","n","t">>) # <<>>
          => ListsFirstFive(Matching(<<"I","m","p","o","r","t","a","n","t">>))
    /\ RouterAnswered /\ FirstIntent = "todo" /\ Matching(<<"T","o","-","D","o">>) # <<>>
          => ListsFirstFive(Matching(<<"T","o","-","D","o">>))

\* seven Important records: five listed, "and 2 more"
SevenGiveFiveAndTwoMore ==
    /\ RouterAnswered
    /\ FirstIntent = "important"
    /\ Len(Matching(<<"I","m","p","o","r","t","a","n","t">>)) = 7
    /\ Len(Bullets) = 5
    /\ EndsWith(ret.value, <<"\n",".",".","."," ","a","n","d"," ","2"," ","m","o","r","e">>)
(***************************************************************************)
(* Properties of the session.                                              *)
(***************************************************************************)
Started == pc \notin {"start", "call", "done"}

\* between two runs, with records loaded and a run that reaches the tabs,
\* the stored id is the one the selector shows
SelectorSettled ==
    (Started /\ pc = "idle" /\ details_shown)
        => /\ session_state.selected_email_id \in ids_of(session_state.emails)
           /\ shown_email # NoEmail

\* C11: once the session has started, and after every "Reload Prompts", its
\* template set holds all five keys
FiveKeysPresent ==
    Started => \A i \in 1..Len(PromptKeys) : has_key(session_state.prompts.v, PromptKeys[i])

\* the step invokes one of the four operations of the Pipeline: in the bulk
\* pass, or from a button of the details tab
PipelineInvoked ==
    \/ pc \in {"categorize", "extract"}
    \/ /\ pc = "idle" /\ pc' = "shown"
       /\ call'.op \in {"summarize_email", "extract_action_items", "draft_reply"}

\* C12: with a credential, every invocation of categorize_email,
\* extract_action_items, summarize_email and draft_reply sends exactly one
\* request to the Gateway, whether the request fails or not and whether or
\* not the same invocation was made before
OneCallPerInvocation ==
    [][PipelineInvoked => /\ Len(gateway_log') = Len(gateway_log) + 1
                          /\ gateway_log'[Len(gateway_log')].net]_vars

\* the request of the Gateway call an operation made for a record
RequestOf(system_prompt, user_content) ==
    [system |-> system_prompt, user |-> user_content, net |-> TRUE]

\* a record that an earlier pass has processed was categorized again, the
\* request failed, and the log of the run holds the one request
FailedRepeatSentOnce ==
    /\ pc = "extract" /\ bulk.idx = 1
    /\ has_key(session_state.processed, session_state.emails[1].id)
    /\ session_state.emails[1].category = PyStr(<<"S","p","a","m">>)
    /\ bulk.category = PyStr(<<"I","m","p","o","r","t","a","n","t">>)
    /\ gateway_log = <<RequestOf(categorize_system(session_state.prompts),
                                 email_content(session_state.emails[1]))>>

\* the two requests of the bulk pass for a record
pass_requests(email) ==
    <<RequestOf(categorize_system(session_state.prompts), email_content(email)),
      RequestOf(PyStr(extract_system(session_state.prompts).v \o JsonHint),
                email_content(email))>>

RECURSIVE requests_upto(_)
\* the requests of the bulk pass for the first n records
requests_upto(n) ==
    IF n = 0 THEN <<>> ELSE requests_upto(n - 1) \o pass_requests(session_state.emails[n])

PassStarted == pc = "categorize" /\ bulk.idx = 1

\* the run of a bulk pass is at its end
PassEnded == pc = "shown" /\ call = NoCall

\* in a bulk pass the log holds the requests of the records before the
\* current one, and the categorization request of the current one once it is
\* made; at the end those of all the records
PassInOrder ==
    /\ pc = "categorize" => gateway_log = requests_upto(bulk.idx - 1)
    /\ pc = "extract" =>
           gateway_log = requests_upto(bulk.idx - 1)
                             \o <<pass_requests(session_state.emails[bulk.idx])[1]>>
    /\ PassEnded => gateway_log = requests_upto(Len(session_state.emails))

\* every loaded record has its category and its entry of processed
AllProcessed ==
    \A i \in 1..Len(session_state.emails) :
        /\ session_state.emails[i].category # PyNone
        /\ has_key(session_state.processed, session_state.emails[i].id)

\* C13: a bulk pass over N records sends categorize(1), extract(1), ...,
\* categorize(N), extract(N) in this order and nothing else, and once started
\* it ends with every record processed
PassVisitsAllInOrder ==
    /\ [](Started => PassInOrder)
    /\ PassStarted ~> (PassEnded /\ AllProcessed
                       /\ Len(gateway_log) = 2 * Len(session_state.emails))

\* a pass over two records has ended, with four requests and both categories
TwoRecordsPassed ==
    /\ PassEnded
    /\ Len(session_state.emails) = 2 /\ Len(gateway_log) = 4
    /\ session_state.emails[1].category = PyStr(<<"S","p","a","m">>)
    /\ session_state.emails[2].category = PyStr(<<"I","m","p","o","r","t","a","n","t">>)


\* the step is the end of the loop body for record bulk.idx: its category
\* is written, no other field and no other record, and the loop is done with
\* the record
CategoryWritten ==
    /\ pc = "extract"
    /\ session_state.emails' =
           [session_state.emails EXCEPT ![bulk.idx].category = bulk.category]
    /\ bulk.category.v \in Labels
    /\ \/ pc' = "categorize" /\ bulk'.idx = bulk.idx + 1
       \/ pc' = "shown" /\ bulk.idx = Len(session_state.emails)

\* C14: the category of a loaded record is written once for each record of
\* a bulk pass, at the end of its loop body, and no other step of a session
\* changes a field of a record (a reload replaces the records); a category
\* is None or one of the four labels
CategoryWrittenOncePerPass ==
    /\ [](Started => \A i \in 1..Len(session_state.emails) :
                         \/ session_state.emails[i].category = PyNone
                         \/ /\ session_state.emails[i].category.t = "str"
                            /\ session_state.emails[i].category.v \in Labels)
    /\ [][Started =>
            /\ pc = "extract" => CategoryWritten
            /\ session_state.emails' # session_state.emails =>
                   \/ CategoryWritten
                   \/ /\ pc = "idle" /\ pc' = "details_tab"
                      /\ session_state.emails' = load_inbox(mock_inbox_json)]_vars

\* inside a pass over two records: the first has its category, the second
\* has none yet
FirstWrittenSecondNotYet ==
    /\ pc = "categorize" /\ bulk.idx = 2
    /\ session_state.emails[1].category = PyStr(<<"S","p","a","m">>)
    /\ session_state.emails[2].category = PyNone

\* the step is a click on "Generate Draft" with a credential
DraftGenerated == pc = "idle" /\ pc' = "shown" /\ call'.op = "draft_reply"

\* the drafts kept under other ids than email_id
other_drafts(drafts, email_id) ==
    {drafts[i] : i \in {j \in 1..Len(drafts) : drafts[j][1] # email_id}}

\* C15: the session holds at most one draft for an id; a generation stores
\* the draft it produced under the id of its record, in the place of the
\* draft held before for that id, and leaves the drafts of the other ids as
\* they were; no other step changes a draft
OneDraftPerId ==
    /\ [](Started => \A i, j \in 1..Len(session_state.drafts) :
                         session_state.drafts[i][1] = session_state.drafts[j][1] => i = j)
    /\ [][Started =>
            IF DraftGenerated
            THEN /\ <<call'.email.id, ret'.value.draft>> \in
                        {session_state.drafts'[i] : i \in 1..Len(session_state.drafts')}
                 /\ other_drafts(session_state.drafts', call'.email.id)
                        = other_drafts(session_state.drafts, call'.email.id)
            ELSE session_state.drafts' = session_state.drafts]_vars

\* a draft was generated again for the record drafted first, after a pass
\* that made its category Spam, beside the draft of another record: the
\* draft held is the new one
RegeneratedBesideAnother ==
    /\ pc = "shown" /\ call.op = "draft_reply"
    /\ Len(session_state.drafts) = 2
    /\ session_state.drafts[1] = <<call.email.id, ret.value.draft>>
    /\ ret.value.draft.metadata.category = PyStr(<<"S","p","a","m">>)

\* load_inbox has run in the session
Loaded == Started /\ session_state.emails = load_inbox(mock_inbox_json)

\* C16: no two records of the list load_inbox returns have the same id, so
\* that an id names one record
IdsUniqueAfterLoad ==
    Loaded => \A i, j \in 1..Len(session_state.emails) :
                  session_state.emails[i].id = session_state.emails[j].id => i = j

\* the category processed records for an id, None when it has no entry
processed_category(email_id) ==
    IF has_key(session_state.processed, email_id)
    THEN session_state.processed[CHOOSE i \in 1..Len(session_state.processed) :
                                     session_state.processed[i][1] = email_id][2].category
    ELSE PyNone

\* C17: every key of processed is the id of a loaded record, and the
\* category of every loaded record is the one processed records for its id
ProcessedMatchesEmails ==
    Started =>
        /\ \A i \in 1..Len(session_state.processed) :
               session_state.processed[i][1] \in ids_of(session_state.emails)
        /\ \A i \in 1..Len(session_state.emails) :
               session_state.emails[i].category = processed_category(session_state.emails[i].id)

\* the same for lists whose ids are all different
ProcessedMatchesUniqueEmails ==
    (Started /\ \A i, j \in 1..Len(session_state.emails) :
         session_state.emails[i].id = session_state.emails[j].id => i = j)
        => ProcessedMatchesEmails

\* a chat query was submitted with a credential
ChatSubmitted == pc = "shown" /\ call.op = "run_agent_query"

\* C18: when the selected id is the id of a loaded record, a chat query
\* hands that record to run_agent_query as selected_email, whatever the id
ChatGetsSelectedEmail ==
    (ChatSubmitted /\ session_state.selected_email_id \in ids_of(session_state.emails))
        => /\ call.selected_email # NoEmail
           /\ call.selected_email = get_email_by_id(session_state.emails,
                                                    session_state.selected_email_id)

\* the same for the ids that are not 0
ChatGetsSelectedNonZero ==
    (ChatSubmitted /\ session_state.selected_email_id \in ids_of(session_state.emails)
                   /\ session_state.selected_email_id # PyInt(<<"0">>))
        => /\ call.selected_email # NoEmail
           /\ call.selected_email = get_email_by_id(session_state.emails,
                                                    session_state.selected_email_id)

\* the keys of a template set are the five canonical ones and no other
five_keys(prompts) ==
    /\ Len(prompts.v) = Len(PromptKeys)
    /\ \A i \in 1..Len(PromptKeys) : has_key(prompts.v, PromptKeys[i])

InboxReloaded == pc = "idle" /\ pc' = "details_tab"

====
